---- MODULE Spec2Model ----
(***************************************************************************)
(* A model of the call-graph explorer: the store client's path resolver,   *)
(* the HTTP handlers with the file browser index, and the client's graph   *)
(* assembly.                                                               *)
(*                                                                         *)
(* Strings are sequences of one-character strings, so that trimming,       *)
(* prefix stripping, splitting, LIKE matching and collation are computed   *)
(* character by character.  null/undefined is Null, a one-element sequence *)
(* whose element is not a character: it equals no string.                  *)
(***************************************************************************)
EXTENDS Integers, Sequences, FiniteSets, TLC

VARIABLES
  op,                 \* name of the last operation that ran ("none" after construction)
  sources,            \* rows of the store's sources table, in the order the store returns them
  filePathArg,        \* argument of the last resolveSourceFilePath call
  resolved,           \* its result
  fileBrowserIndex,   \* the index buildFileBrowserIndex returned
  browsePathArg,      \* argument of the last hasDirectory / listDirectory call
  hasDir,             \* result of the last hasDirectory call
  listing,            \* result of the last listDirectory call
  functions,          \* rows of the store's function nodes
  request,            \* the last HTTP request: route and query parameters
  response,           \* its response: status and body
  storeCalls,         \* the store operations the last request's handler called, in order
  queries,            \* rows of the store's queries table: name and sql
  symbols,            \* the rows the store yields for the symbol search
  preparedQueryStatements,  \* the cache of compiled statements, by query name
  prepareCount,       \* per query name, the connection.prepare calls made for it
  queryLog,           \* the names runQueryByName was called with, oldest first
  queryOutcome,       \* what the last runQueryByName call threw or returned
  selectedFunction,   \* client: the focal function, NoFunction when none is selected
  graphView,          \* client: "neighbors" or "deep"
  graphData,          \* client: the three traversal answers as loadGraph stored them
  activeGraphData,    \* client: the memoised selectGraphData result
  graphElements,      \* client: the memoised buildGraphElements result
  previousElements,   \* client: the buildGraphElements result of the render before
  mode,               \* client: "browse" or "graph"
  graphError,         \* client: the message of the last failed graph load, "" when none
  isGraphLoading,     \* client: the flag loadGraph raises and lowers
  loads,              \* client: the loadGraph calls awaiting their fetches, oldest first
  sourceLoads,        \* client: the source-panel loads awaiting their fetches
  lastSettled,        \* client: the loadGraph call the last step finished, else NoLoad
  takeNodes,          \* client: the nodes argument of the last takeMeaningfulNodes call
  takeBudget,         \* client: its budget argument
  taken               \* client: its result

resolverVars == <<filePathArg, resolved>>
browseVars == <<fileBrowserIndex, browsePathArg, hasDir, listing>>
serverVars == <<functions, request, response, storeCalls>>
registryVars ==
  <<queries, symbols, preparedQueryStatements, prepareCount, queryLog, queryOutcome>>
graphVars ==
  <<selectedFunction, graphView, graphData, activeGraphData, graphElements, previousElements>>
loadVars == <<mode, graphError, isGraphLoading, loads, sourceLoads, lastSettled>>
takeVars == <<takeNodes, takeBudget, taken>>
vars ==
  <<op, sources, resolverVars, browseVars, serverVars, registryVars, graphVars, loadVars,
    takeVars>>

Null == <<"null">>

(* ----------------------------- characters ------------------------------ *)

UpperLetters ==
  <<"A","B","C","D","E","F","G","H","I","J","K","L","M",
    "N","O","P","Q","R","S","T","U","V","W","X","Y","Z">>

LowerLetters ==
  <<"a","b","c","d","e","f","g","h","i","j","k","l","m",
    "n","o","p","q","r","s","t","u","v","w","x","y","z">>

DigitChars == <<"0","1","2","3","4","5","6","7","8","9">>

IndexOf(c, tbl) ==
  IF \E i \in 1..Len(tbl) : tbl[i] = c
  THEN CHOOSE i \in 1..Len(tbl) : tbl[i] = c
  ELSE 0

toLowerCaseChar(c) ==
  LET i == IndexOf(c, UpperLetters) IN IF i > 0 THEN LowerLetters[i] ELSE c

toLowerCase(s) == [i \in 1..Len(s) |-> toLowerCaseChar(s[i])]

IsWhitespace(c) == c \in {" ", "\t", "\n", "\r"}

Truthy(s) == s # Null /\ s # <<>>

(* String(value || ""): null, undefined and "" all become "". *)
StringOrEmpty(value) == IF Truthy(value) THEN value ELSE <<>>

RECURSIVE trimStart(_)
trimStart(s) ==
  IF s # <<>> /\ IsWhitespace(s[1]) THEN trimStart(Tail(s)) ELSE s

RECURSIVE trimEnd(_)
trimEnd(s) ==
  IF s # <<>> /\ IsWhitespace(s[Len(s)])
  THEN trimEnd(SubSeq(s, 1, Len(s) - 1))
  ELSE s

trim(s) == trimEnd(trimStart(s))

(* .replace(/\\/g, "/") *)
replaceBackslashes(s) == [i \in 1..Len(s) |-> IF s[i] = "\\" THEN "/" ELSE s[i]]

(* stripDotSlash without the replacement: the "./" stays. *)
keepDotSlash(s) == s

(* .replace(/^\.\//, "") *)
stripDotSlash(s) ==
  IF Len(s) >= 2 /\ s[1] = "." /\ s[2] = "/" THEN SubSeq(s, 3, Len(s)) ELSE s

(* .replace(/^\/+/, "") *)
RECURSIVE stripLeadingSlashes(_)
stripLeadingSlashes(s) ==
  IF s # <<>> /\ s[1] = "/" THEN stripLeadingSlashes(Tail(s)) ELSE s

(* .replace(/\/+$/, "") *)
RECURSIVE stripTrailingSlashes(_)
stripTrailingSlashes(s) ==
  IF s # <<>> /\ s[Len(s)] = "/"
  THEN stripTrailingSlashes(SubSeq(s, 1, Len(s) - 1))
  ELSE s

(* s.split("/").filter(Boolean): the non-empty segments of s. *)
RECURSIVE splitSegments(_, _)
splitSegments(s, cur) ==
  IF s = <<>> THEN (IF cur = <<>> THEN <<>> ELSE <<cur>>)
  ELSE IF s[1] = "/"
       THEN (IF cur = <<>> THEN <<>> ELSE <<cur>>) \o splitSegments(Tail(s), <<>>)
       ELSE splitSegments(Tail(s), Append(cur, s[1]))

splitPath(s) == splitSegments(s, <<>>)

(* parts.join("/") *)
RECURSIVE joinPath(_)
joinPath(parts) ==
  IF parts = <<>> THEN <<>>
  ELSE IF Len(parts) = 1 THEN parts[1]
  ELSE parts[1] \o <<"/">> \o joinPath(Tail(parts))

(* String.prototype.endsWith. *)
EndsWith(s, t) ==
  Len(s) >= Len(t) /\ SubSeq(s, Len(s) - Len(t) + 1, Len(s)) = t

(* ------------------------- store: path resolver ------------------------ *)

MIN_SUFFIX_LENGTH == 8

normalizeFilePath(filePath) == replaceBackslashes(trim(StringOrEmpty(filePath)))

(* sourceFileExistsStatement: WHERE file = ? LIMIT 1 (binary comparison). *)
sourceFileExists(candidate, rows) ==
  LET hits == SelectSeq(rows, LAMBDA r : r.file = candidate)
  IN IF hits = <<>> THEN Null ELSE hits[1].file

(* SQLite's LIKE: % matches any run of characters, _ any one character,    *)
(* and every other character matches itself ignoring ASCII case.           *)
RECURSIVE likeMatch(_, _)
likeMatch(pattern, text) ==
  IF pattern = <<>> THEN text = <<>>
  ELSE IF pattern[1] = "%"
       THEN \E k \in 0..Len(text) :
              likeMatch(Tail(pattern), SubSeq(text, k + 1, Len(text)))
  ELSE IF text = <<>> THEN FALSE
  ELSE IF pattern[1] = "_" THEN likeMatch(Tail(pattern), Tail(text))
  ELSE /\ toLowerCaseChar(pattern[1]) = toLowerCaseChar(text[1])
       /\ likeMatch(Tail(pattern), Tail(text))

(* findSourceFilesBySuffix with LIMIT 1: one matching row, whichever the   *)
(* store returns first.                                                     *)
findFirstSourceFileBySuffix(pattern, rows) ==
  LET hits == SelectSeq(rows, LAMBDA r : likeMatch(pattern, r.file))
  IN IF Len(hits) > 1 THEN SubSeq(hits, 1, 1) ELSE hits

(* findSourceFilesBySuffixStatement.all(pattern): WHERE file LIKE ? LIMIT 2 *)
findSourceFilesBySuffix(pattern, rows) ==
  LET hits == SelectSeq(rows, LAMBDA r : likeMatch(pattern, r.file))
  IN IF Len(hits) > 2 THEN SubSeq(hits, 1, 2) ELSE hits

exactCandidates(normalized) ==
  <<normalized, stripDotSlash(normalized), stripLeadingSlashes(normalized)>>

(* The loop over the candidates, with its set of candidates already tried. *)
RECURSIVE exactLoop(_, _, _, _)
exactLoop(candidates, i, seen, rows) ==
  IF i > Len(candidates) THEN Null
  ELSE LET candidate == candidates[i] IN
       IF candidate = <<>> \/ candidate \in seen
       THEN exactLoop(candidates, i + 1, seen, rows)
       ELSE LET file == sourceFileExists(candidate, rows) IN
            IF Truthy(file) THEN file
            ELSE exactLoop(candidates, i + 1, seen \cup {candidate}, rows)

(* uniqueMatch accepting any non-empty answer: the first of several wins. *)
anyMatch(matches) == Len(matches) >= 1

uniqueMatch(matches) == Len(matches) = 1

(* The loop over the tails of the input's segments, longest first. *)
RECURSIVE suffixLoop(_, _, _)
suffixLoop(parts, start, rows) ==
  IF start > Len(parts) THEN Null
  ELSE LET suffix == joinPath(SubSeq(parts, start, Len(parts))) IN
       IF Len(suffix) < MIN_SUFFIX_LENGTH
       THEN suffixLoop(parts, start + 1, rows)
       ELSE LET matches == findSourceFilesBySuffix(<<"%">> \o suffix, rows) IN
            IF uniqueMatch(matches) THEN matches[1].file
            ELSE suffixLoop(parts, start + 1, rows)

resolveSourceFilePath(filePath, rows) ==
  LET normalized == normalizeFilePath(filePath) IN
  IF normalized = <<>> THEN Null
  ELSE LET exact == exactLoop(exactCandidates(normalized), 1, {}, rows) IN
       IF exact # Null THEN exact
       ELSE suffixLoop(splitPath(normalized), 1, rows)


(* ------------------------- store: query registry ----------------------- *)

(* The names the server asks the registry for. *)
CALL_GRAPH_QUERY_NAMES ==
  [neighborhood |-> "function_neighborhood",
   callChain |-> "call_chain",
   callers |-> "callers_of",
   pathfinder |-> "call_chain_pathfinder",
   symbolSearch |-> "symbol_search"]

QueryNames == { CALL_GRAPH_QUERY_NAMES[k] : k \in DOMAIN CALL_GRAPH_QUERY_NAMES }

(* The text stored for the symbol search; the other texts are traversals. *)
Sql_symbols == <<"S", "Y">>

(* The registry's part of the store and of the client object: the queries  *)
(* table, the rows behind the symbol search, the statement cache and the   *)
(* count of compilations.                                                  *)
DbState(table, symbolRows, cache, counts) ==
  [queries |-> table, symbols |-> symbolRows, statements |-> cache, prepared |-> counts]

(* getQuerySqlStatement.get(queryName): the rows found, at most one *)
getQuerySql(table, queryName) ==
  LET hits == SelectSeq(table, LAMBDA r : r.name = queryName)
  IN IF hits = <<>> THEN <<>> ELSE <<hits[1]>>

(* Map.has, Map.get, Map.set on the statement cache *)
cacheHas(cache, queryName) == \E e \in cache : e.name = queryName

cacheGet(cache, queryName) == (CHOOSE e \in cache : e.name = queryName).statement

cacheSet(cache, queryName, statement) ==
  { e \in cache : e.name # queryName } \cup {[name |-> queryName, statement |-> statement]}

(* connection.prepare(sql): every call makes a new statement object; the   *)
(* serial tells the objects compiled for one name apart.                   *)
connectionPrepare(sql, serial) == [sql |-> sql, serial |-> serial]

(* getPreparedQueryByName that compiles on every call. *)
getPreparedQueryUncached(db, queryName) ==
  LET row == getQuerySql(db.queries, queryName) IN
  IF row = <<>> \/ ~Truthy(row[1].sql)
  THEN [statement |-> <<>>, db |-> db]
  ELSE LET statement == connectionPrepare(row[1].sql, db.prepared[queryName] + 1)
       IN [statement |-> <<statement>>,
           db |-> [db EXCEPT !.statements = cacheSet(@, queryName, statement),
                             !.prepared[queryName] = @ + 1]]

(* getPreparedQueryByName that also remembers the names it did not find. *)
getPreparedQueryCachingMisses(db, queryName) ==
  IF ~cacheHas(db.statements, queryName)
  THEN LET row == getQuerySql(db.queries, queryName) IN
       IF row = <<>> \/ ~Truthy(row[1].sql)
       THEN [statement |-> <<>>,
             db |-> [db EXCEPT !.statements = cacheSet(@, queryName, Null)]]
       ELSE LET statement == connectionPrepare(row[1].sql, db.prepared[queryName] + 1)
            IN [statement |-> <<statement>>,
                db |-> [db EXCEPT !.statements = cacheSet(@, queryName, statement),
                                  !.prepared[queryName] = @ + 1]]
  ELSE LET cached == cacheGet(db.statements, queryName)
       IN [statement |-> IF cached = Null THEN <<>> ELSE <<cached>>, db |-> db]

(* The statement for a name, none when the name has no stored text, and    *)
(* the registry afterwards.                                                *)
getPreparedQueryByName(db, queryName) ==
  IF ~cacheHas(db.statements, queryName)
  THEN LET row == getQuerySql(db.queries, queryName) IN
       IF row = <<>> \/ ~Truthy(row[1].sql)
       THEN [statement |-> <<>>, db |-> db]
       ELSE LET statement == connectionPrepare(row[1].sql, db.prepared[queryName] + 1)
                cache == cacheSet(db.statements, queryName, statement)
            IN [statement |-> <<cacheGet(cache, queryName)>>,
                db |-> [db EXCEPT !.statements = cache, !.prepared[queryName] = @ + 1]]
  ELSE [statement |-> <<cacheGet(db.statements, queryName)>>, db |-> db]

(* statement.all(params): the stored text is data of the store, and so is  *)
(* what it selects.  The symbol search yields the store's symbol rows; a   *)
(* traversal yields one row that names the text and the parameters.        *)
statementAll(statement, params, symbolRows) ==
  IF statement.sql = Sql_symbols THEN symbolRows
  ELSE << [via |-> statement.sql, params |-> params] >>

UnknownQuery(queryName) == <<"Unknown query: ", queryName>>

(* What the call threw (nothing when it returned), the rows it returned,   *)
(* the statement it executed, and the registry afterwards.                 *)
runQueryByName(db, queryName, params) ==
  LET got == getPreparedQueryByName(db, queryName) IN
  IF got.statement = <<>>
  THEN [threw |-> UnknownQuery(queryName), rows |-> <<>>, statement |-> <<>>, db |-> got.db]
  ELSE [threw |-> <<>>,
        rows |-> statementAll(got.statement[1], params, db.symbols),
        statement |-> got.statement,
        db |-> got.db]

(* ------------------------------ collation ------------------------------ *)

(* The printable ASCII characters in code-unit order, from 32 (space);     *)
(* "dquote" and "bquote" hold the places of the double quote and of the    *)
(* backquote.                                                              *)
AsciiPrintable ==
  <<" ","!","dquote","#","$","%","&","'","(",")","*","+",",","-",".","/",
    "0","1","2","3","4","5","6","7","8","9",":",";","<","=",">","?",
    "@","A","B","C","D","E","F","G","H","I","J","K","L","M","N","O",
    "P","Q","R","S","T","U","V","W","X","Y","Z","[","\\","]","^","_",
    "bquote","a","b","c","d","e","f","g","h","i","j","k","l","m","n","o",
    "p","q","r","s","t","u","v","w","x","y","z","{","|","}","~">>

CodeUnit(c) == 31 + IndexOf(c, AsciiPrintable)

(* Punctuation in the order of the root collation, before every digit. *)
CollationPunctuation ==
  <<" ","_","-",",",";",":","!","?",".","'","dquote","(",")","[","]","{","}",
    "@","*","/","\\","&","#","%","bquote","^","+","<","=",">","|","~","$">>

(* Primary collation weight: punctuation, then digits, then letters with   *)
(* their case ignored.                                                     *)
PrimaryWeight(c) ==
  LET letter == IndexOf(toLowerCaseChar(c), LowerLetters)
      digit == IndexOf(c, DigitChars)
  IN IF letter > 0 THEN Len(CollationPunctuation) + Len(DigitChars) + letter
     ELSE IF digit > 0 THEN Len(CollationPunctuation) + digit
     ELSE IndexOf(c, CollationPunctuation)

(* Tertiary weight: a lower-case letter sorts before its upper-case form. *)
CaseWeight(c) == IF IndexOf(c, UpperLetters) > 0 THEN 1 ELSE 0

(* -1, 0 or 1: the first difference of two sequences of numbers decides,   *)
(* and a proper prefix comes first.                                        *)
RECURSIVE compareWeights(_, _)
compareWeights(x, y) ==
  IF x = <<>> /\ y = <<>> THEN 0
  ELSE IF x = <<>> THEN -1
  ELSE IF y = <<>> THEN 1
  ELSE IF x[1] < y[1] THEN -1
  ELSE IF x[1] > y[1] THEN 1
  ELSE compareWeights(Tail(x), Tail(y))

(* String.prototype.localeCompare: the primary weights of the whole        *)
(* strings decide; case only breaks a tie between strings that are equal   *)
(* up to case.                                                             *)
localeCompare(a, b) ==
  LET primary == compareWeights([i \in 1..Len(a) |-> PrimaryWeight(a[i])],
                                [i \in 1..Len(b) |-> PrimaryWeight(b[i])])
  IN IF primary # 0 THEN primary
     ELSE compareWeights([i \in 1..Len(a) |-> CaseWeight(a[i])],
                         [i \in 1..Len(b) |-> CaseWeight(b[i])])

(* The order of the strings' UTF-16 code units: the < of JavaScript and    *)
(* the BINARY collation of the store.                                      *)
codeUnitCompare(a, b) ==
  compareWeights([i \in 1..Len(a) |-> CodeUnit(a[i])],
                 [i \in 1..Len(b) |-> CodeUnit(b[i])])

(* Array.prototype.sort with a consistent comparator: a stable sort.       *)
(* compared[i][j] is the comparator's answer for s[i] and s[j].  The        *)
(* element at index i lands after every element that compares smaller and  *)
(* after every equal element that precedes it.                             *)
stableSort(s, compared) ==
  LET rank(i) ==
        1 + Cardinality({ j \in 1..Len(s) :
                            \/ compared[j][i] < 0
                            \/ compared[j][i] = 0 /\ j < i })
  IN [k \in 1..Len(s) |-> s[CHOOSE i \in 1..Len(s) : rank(i) = k]]

(* ------------------------ server: file browser index ------------------- *)

normalizeBrowsePath(inputPath) ==
  stripTrailingSlashes(stripLeadingSlashes(replaceBackslashes(trim(StringOrEmpty(inputPath)))))

(* A Map from name to entry in insertion order: setting a name that is     *)
(* present replaces its value in place.                                    *)
mapSet(entries, name, entry) ==
  IF \E i \in 1..Len(entries) : entries[i].name = name
  THEN [entries EXCEPT ![CHOOSE i \in 1..Len(entries) : entries[i].name = name] = entry]
  ELSE Append(entries, entry)

ensureDirectory(directoryEntries, path) ==
  IF path \in DOMAIN directoryEntries
  THEN directoryEntries
  ELSE directoryEntries @@ (path :> <<>>)

EmptyIndex ==
  [directoryEntries |-> ensureDirectory(<<>>, <<>>), knownDirectories |-> {<<>>}]

(* directoryPartCount counting the file name as a directory too. *)
allPartCount(parts) == Len(parts)

(* The number of leading parts of a file path that are directories. *)
directoryPartCount(parts) == Len(parts) - 1

(* The inner loop: one directory per leading part of the path. *)
RECURSIVE directoryLoop(_, _, _, _)
directoryLoop(parts, i, currentPath, index) ==
  IF i > directoryPartCount(parts)
  THEN [index |-> index, currentPath |-> currentPath]
  ELSE LET name == parts[i]
           parentPath == currentPath
           dirPath == IF currentPath # <<>> THEN currentPath \o <<"/">> \o name ELSE name
           ensured == ensureDirectory(ensureDirectory(index.directoryEntries, parentPath),
                                      dirPath)
           linked == [ensured EXCEPT ![parentPath] =
                        mapSet(@, name, [type |-> "directory", name |-> name, path |-> dirPath])]
       IN directoryLoop(parts, i + 1, dirPath,
                        [directoryEntries |-> linked,
                         knownDirectories |-> index.knownDirectories \cup {dirPath}])

(* The body of the loop over the rows. *)
indexRow(index, row) ==
  LET filePath == normalizeBrowsePath(row.file) IN
  IF filePath = <<>> THEN index
  ELSE LET parts == splitPath(filePath)
           walked == directoryLoop(parts, 1, <<>>, index)
           fileName == parts[Len(parts)]
           parentPath == walked.currentPath
           ensured == ensureDirectory(walked.index.directoryEntries, parentPath)
       IN [directoryEntries |->
             [ensured EXCEPT ![parentPath] =
                mapSet(@, fileName, [type |-> "file", name |-> fileName,
                                     path |-> filePath, package |-> row.package])],
           knownDirectories |-> walked.index.knownDirectories]

RECURSIVE indexRows(_, _, _)
indexRows(files, k, index) ==
  IF k > Len(files) THEN index ELSE indexRows(files, k + 1, indexRow(index, files[k]))

buildFileBrowserIndex(files) == indexRows(files, 1, EmptyIndex)

hasDirectory(index, path) == path \in index.knownDirectories

compareEntries(a, b) ==
  IF a.type # b.type
  THEN (IF a.type = "directory" THEN -1 ELSE 1)
  ELSE localeCompare(a.name, b.name)

(* listDirectory without the sort: the entries in insertion order. *)
listDirectoryUnsorted(index, path) ==
  IF path \notin DOMAIN index.directoryEntries
  THEN <<>>
  ELSE index.directoryEntries[path]

listDirectory(index, path) ==
  IF path \notin DOMAIN index.directoryEntries
  THEN <<>>
  ELSE LET entries == index.directoryEntries[path]
       IN stableSort(entries,
                     [i \in 1..Len(entries) |->
                        [j \in 1..Len(entries) |-> compareEntries(entries[i], entries[j])]])

(* ------------------------ client: graph assembly ----------------------- *)

MAX_GRAPH_NODES == 60

Str_caller == <<"c","a","l","l","e","r">>
Str_callee == <<"c","a","l","l","e","e">>
Str_direct == <<"d","i","r","e","c","t">>
Str_focus == <<"f","o","c","u","s">>
Str_transitive == <<"t","r","a","n","s","i","t","i","v","e">>
Str_undefined == <<"u","n","d","e","f","i","n","e","d">>

(* The decimal digits of a natural number, as a template literal prints it. *)
RECURSIVE toDecimal(_)
toDecimal(n) ==
  IF n < 10 THEN <<DigitChars[n + 1]>>
  ELSE toDecimal(n \div 10) \o <<DigitChars[(n % 10) + 1]>>

(* A value inside a template literal. *)
toText(value) == IF value = Null THEN Str_undefined ELSE value

startsWith(s, prefix) ==
  Len(s) >= Len(prefix) /\ SubSeq(s, 1, Len(prefix)) = prefix

Min(a, b) == IF a < b THEN a ELSE b
Max(a, b) == IF a > b THEN a ELSE b

(* A traversal row.  A missing depth reads as 0, as Number(depth || 0)     *)
(* does; a missing id, file, package or name is Null.                      *)
TraversalRow(id, name, file, line, package, direction, depth) ==
  [id |-> id, name |-> name, file |-> file, line |-> line, package |-> package,
   direction |-> direction, depth |-> depth]

(* selectedFunction when no function is selected (null). *)
NoFunction ==
  [function_id |-> Null, name |-> Null, file |-> Null, line |-> 0, package |-> Null]

rankTraversalNode(node, selected) ==
  LET depth == node.depth
      samePackage ==
        IF Truthy(node.package) /\ node.package = selected.package THEN 1 ELSE 0
      sameFile == IF Truthy(node.file) /\ node.file = selected.file THEN 1 ELSE 0
      hasLocalSource == IF Truthy(node.file) THEN 1 ELSE 0
      externalPenalty ==
        IF startsWith(StringOrEmpty(node.id), <<"e","x","t",":",":">>) THEN 1 ELSE 0
  IN depth * 100 - samePackage * 20 - sameFile * 10 - hasLocalSource * 5
       + externalPenalty * 15

compareTraversalNodes(left, right, selected) ==
  LET leftScore == rankTraversalNode(left, selected)
      rightScore == rankTraversalNode(right, selected)
  IN IF leftScore # rightScore THEN leftScore - rightScore
     ELSE localeCompare(StringOrEmpty(left.name), StringOrEmpty(right.name))

(* takeMeaningfulNodes without the sort: the first nodes of the pool. *)
takeFirstNodes(nodes, budget, selected) ==
  IF budget <= 0 THEN <<>> ELSE SubSeq(nodes, 1, Min(budget, Len(nodes)))

takeMeaningfulNodes(nodes, budget, selected) ==
  IF budget <= 0 THEN <<>>
  ELSE LET sorted ==
             stableSort(nodes,
                        [i \in 1..Len(nodes) |->
                           [j \in 1..Len(nodes) |->
                              compareTraversalNodes(nodes[i], nodes[j], selected)]])
       IN SubSeq(sorted, 1, Min(budget, Len(nodes)))

(* isAllowedGraphNode without the test of the file. *)
isAllowedWithId(node) == Truthy(node.id)

isAllowedGraphNode(node) ==
  IF ~Truthy(node.id) THEN FALSE
  ELSE IF ~Truthy(node.file) THEN TRUE
  ELSE EndsWith(toLowerCase(node.file), <<".","g","o">>)

hasId(nodes, id) == \E i \in 1..Len(nodes) : nodes[i].id = id

(* remainingBudgetFor without the focal function's own place. *)
remainingBudgetIgnoringFocal(directIds) ==
  Max(MAX_GRAPH_NODES - Cardinality(directIds), 0)

(* remainingBudgetFor with a budget that is not reset between calls: the    *)
(* transitive nodes of the previous selection are still deducted.           *)
remainingBudgetAfterLastCall(directIds) ==
  Max(MAX_GRAPH_NODES - 1 - Cardinality(directIds)
        - Len(activeGraphData.callers) - Len(activeGraphData.callChain), 0)

remainingBudgetFor(directIds) == Max(MAX_GRAPH_NODES - 1 - Cardinality(directIds), 0)

(* callerBudget, rounded up: the larger half for the callers. *)
callerBudgetRoundedUp(remainingBudget) == (remainingBudget + 1) \div 2

callerBudgetOf(remainingBudget) == remainingBudget \div 2

(* calleeBudget as a second rounded-down half. *)
calleeBudgetRoundedDown(remainingBudget) == remainingBudget \div 2

calleeBudgetOf(remainingBudget) == remainingBudget - callerBudgetOf(remainingBudget)

(* The three result sets after the allowed-node filter. *)
filterGraphData(data) ==
  [neighborhood |-> SelectSeq(data.neighborhood, isAllowedGraphNode),
   callChain |-> SelectSeq(data.callChain, isAllowedGraphNode),
   callers |-> SelectSeq(data.callers, isAllowedGraphNode)]

(* The deep view up to the first two takeMeaningfulNodes calls: the         *)
(* candidates that are not direct neighbors, the budget, the two initial    *)
(* selections.                                                              *)
initialSelection(filtered, selected) ==
  LET directIds == { filtered.neighborhood[i].id : i \in 1..Len(filtered.neighborhood) }
      remainingBudget == remainingBudgetFor(directIds)
      filteredCallers == SelectSeq(filtered.callers, LAMBDA node : node.id \notin directIds)
      filteredCallees == SelectSeq(filtered.callChain, LAMBDA node : node.id \notin directIds)
  IN [remainingBudget |-> remainingBudget,
      filteredCallers |-> filteredCallers,
      filteredCallees |-> filteredCallees,
      callers |-> takeMeaningfulNodes(filteredCallers, callerBudgetOf(remainingBudget),
                                      selected),
      callChain |-> takeMeaningfulNodes(filteredCallees, calleeBudgetOf(remainingBudget),
                                        selected)]

(* extraIsCaller that answers yes for every extra. *)
extraIsAlwaysCaller(callers, node) == TRUE

(* The test that sends an extra back to a pool:                             *)
(* callers.some((candidate) => candidate.id === node.id).                   *)
extraIsCaller(callers, node) == hasId(callers, node.id)

selectGraphData(data, view, selected) ==
  LET filtered == filterGraphData(data)
  IN IF view = "neighbors"
     THEN [neighborhood |-> filtered.neighborhood, callChain |-> <<>>, callers |-> <<>>]
     ELSE
       LET initial == initialSelection(filtered, selected)
           selectedCallers == initial.callers
           selectedCallees == initial.callChain
           leftoverBudget ==
             initial.remainingBudget - Len(selectedCallers) - Len(selectedCallees)
       IN IF leftoverBudget > 0
          THEN
            LET selectedIds ==
                  { selectedCallers[i].id : i \in 1..Len(selectedCallers) }
                    \cup { selectedCallees[i].id : i \in 1..Len(selectedCallees) }
                remainingNodes ==
                  SelectSeq(initial.filteredCallers \o initial.filteredCallees,
                            LAMBDA node : node.id \notin selectedIds)
                extras == takeMeaningfulNodes(remainingNodes, leftoverBudget, selected)
            IN [neighborhood |-> filtered.neighborhood,
                callers |-> selectedCallers
                              \o SelectSeq(extras,
                                           LAMBDA node :
                                             extraIsCaller(filtered.callers, node)),
                callChain |-> selectedCallees
                              \o SelectSeq(extras,
                                           LAMBDA node :
                                             ~extraIsCaller(filtered.callers, node))]
          ELSE [neighborhood |-> filtered.neighborhood,
                callers |-> selectedCallers,
                callChain |-> selectedCallees]

(* `a b c`.trim().split(/\s+/).filter(Boolean): the maximal runs of         *)
(* characters that are not whitespace.                                      *)
RECURSIVE splitWords(_, _, _)
splitWords(s, words, word) ==
  IF s = <<>> THEN (IF word = <<>> THEN words ELSE Append(words, word))
  ELSE IF IsWhitespace(s[1])
       THEN splitWords(Tail(s), IF word = <<>> THEN words ELSE Append(words, word), <<>>)
       ELSE splitWords(Tail(s), words, Append(word, s[1]))

(* Array.prototype.join(" "). *)
RECURSIVE joinWords(_)
joinWords(words) ==
  IF words = <<>> THEN <<>>
  ELSE IF Len(words) = 1 THEN words[1]
  ELSE words[1] \o <<" ">> \o joinWords(Tail(words))

(* Array.from(new Set(values)): first occurrences, in order. *)
RECURSIVE uniqueValues(_)
uniqueValues(values) ==
  IF values = <<>> THEN <<>>
  ELSE LET front == uniqueValues(SubSeq(values, 1, Len(values) - 1))
           last == values[Len(values)]
       IN IF \E i \in 1..Len(front) : front[i] = last THEN front ELSE Append(front, last)

depthTag(depth) == <<"d","e","p","t","h","-">> \o toDecimal(depth)

(* The node Map: entries [key, value] in insertion order. *)
nodeMapHas(nodeMap, id) == \E i \in 1..Len(nodeMap) : nodeMap[i].key = id

mergeData(existingData, nextData) ==
  [k \in DOMAIN existingData \cup DOMAIN nextData |->
     IF k \in DOMAIN nextData THEN nextData[k] ELSE existingData[k]]

(* upsertNode that replaces the classes of an existing entry. *)
upsertNodeReplacingClasses(nodeMap, id, nextData, classes) ==
  IF ~nodeMapHas(nodeMap, id)
  THEN Append(nodeMap,
              [key |-> id,
               value |-> [data |-> nextData, classes |-> joinWords(uniqueValues(classes))]])
  ELSE LET i == CHOOSE k \in 1..Len(nodeMap) : nodeMap[k].key = id
       IN [nodeMap EXCEPT ![i].value =
             [data |-> mergeData(nodeMap[i].value.data, nextData),
              classes |-> joinWords(uniqueValues(classes))]]

upsertNode(nodeMap, id, nextData, classes) ==
  IF ~nodeMapHas(nodeMap, id)
  THEN Append(nodeMap,
              [key |-> id,
               value |-> [data |-> nextData, classes |-> joinWords(uniqueValues(classes))]])
  ELSE LET i == CHOOSE k \in 1..Len(nodeMap) : nodeMap[k].key = id
           existing == nodeMap[i].value
       IN [nodeMap EXCEPT ![i].value =
             [data |-> mergeData(existing.data, nextData),
              classes |->
                joinWords(uniqueValues(
                  splitWords(trim(existing.classes \o <<" ">> \o joinWords(classes)),
                             <<>>, <<>>)))]]

focalNodeData(selected) ==
  [id |-> selected.function_id, label |-> selected.name,
   file |-> selected.file, line |-> selected.line,
   package |-> selected.package, relation |-> Str_focus, depth |-> 0]

(* directEdge with the row's name where its id belongs. *)
directEdgeByName(focalId, node) ==
  [data |->
     [id |-> toText(focalId) \o <<":">> \o Str_direct \o <<":">> \o toText(node.direction)
               \o <<":">> \o toText(node.id),
      source |-> IF node.direction = Str_caller THEN node.name ELSE focalId,
      target |-> IF node.direction = Str_caller THEN focalId ELSE node.name],
   classes |-> toText(node.direction) \o <<" ">> \o Str_direct]

(* directEdge drawn from the focal function to the node whatever the       *)
(* direction.                                                               *)
directEdgeFromFocal(focalId, node) ==
  [data |->
     [id |-> toText(focalId) \o <<":">> \o Str_direct \o <<":">> \o toText(node.direction)
               \o <<":">> \o toText(node.id),
      source |-> focalId,
      target |-> node.id],
   classes |-> toText(node.direction) \o <<" ">> \o Str_direct]

directEdge(focalId, node) ==
  [data |->
     [id |-> toText(focalId) \o <<":">> \o Str_direct \o <<":">> \o toText(node.direction)
               \o <<":">> \o toText(node.id),
      source |-> IF node.direction = Str_caller THEN node.id ELSE focalId,
      target |-> IF node.direction = Str_caller THEN focalId ELSE node.id],
   classes |-> toText(node.direction) \o <<" ">> \o Str_direct]

(* The loop over the direct neighborhood: one node and one edge per row.    *)
(* Each iteration's map and edge list are bound as values before the next   *)
(* iteration starts.                                                        *)
RECURSIVE neighborhoodLoop(_, _, _, _)
neighborhoodLoop(neighborhood, i, focalId, acc) ==
  IF i > Len(neighborhood) THEN acc
  ELSE LET node == neighborhood[i]
       IN CHOOSE result \in
            { neighborhoodLoop(neighborhood, i + 1, focalId, next) :
                next \in
                  { [nodeMap |->
                       upsertNode(acc.nodeMap, node.id,
                                  [id |-> node.id, label |-> node.name, file |-> node.file,
                                   line |-> node.line, package |-> node.package,
                                   relation |-> node.direction, depth |-> 1],
                                  <<node.direction, Str_direct>>),
                     edgeList |-> Append(acc.edgeList, directEdge(focalId, node))] } } :
            TRUE

(* The depth Map of one direction: buckets [depth, nodes] in the order      *)
(* their depths were first seen.                                            *)
depthsHas(depths, depth) == \E i \in 1..Len(depths) : depths[i].depth = depth

depthsGet(depths, depth) ==
  depths[CHOOSE i \in 1..Len(depths) : depths[i].depth = depth].nodes

depthsPush(depths, depth, node) ==
  IF depthsHas(depths, depth)
  THEN [depths EXCEPT ![CHOOSE i \in 1..Len(depths) : depths[i].depth = depth].nodes =
          Append(@, node)]
  ELSE Append(depths, [depth |-> depth, nodes |-> <<node>>])

(* The loop over the transitive rows of one direction ("caller" or         *)
(* "callee"): rows of the focal function itself are skipped.  A line that   *)
(* is 0 stands for the null the code stores for a missing line.             *)
RECURSIVE transitiveLoop(_, _, _, _, _)
transitiveLoop(nodes, i, focalId, relation, acc) ==
  IF i > Len(nodes) THEN acc
  ELSE LET node == nodes[i]
           depth == node.depth
           enrichedNode ==
             [id |-> node.id, label |-> node.name,
              file |-> IF Truthy(node.file) THEN node.file ELSE Null,
              line |-> node.line, package |-> node.package,
              relation |-> relation, depth |-> depth]
       IN IF node.id = focalId
          THEN transitiveLoop(nodes, i + 1, focalId, relation, acc)
          ELSE transitiveLoop(nodes, i + 1, focalId, relation,
                 [nodeMap |->
                    upsertNode(acc.nodeMap, node.id, enrichedNode,
                               <<relation, Str_transitive, depthTag(depth)>>),
                  depths |-> depthsPush(acc.depths, depth, enrichedNode)])

(* previousIds without the fall-back to the focal function when the layer  *)
(* above is empty.                                                          *)
previousIdsOfLayerAbove(depths, depth, focalId) ==
  IF depth = 1 THEN <<focalId>>
  ELSE IF depthsHas(depths, depth - 1)
       THEN LET previousNodes == depthsGet(depths, depth - 1)
            IN [i \in 1..Len(previousNodes) |-> previousNodes[i].id]
       ELSE <<>>

(* The ids of the layer a bucket's nodes are linked to. *)
previousIds(depths, depth, focalId) ==
  IF depth = 1 THEN <<focalId>>
  ELSE IF depthsHas(depths, depth - 1)
       THEN LET previousNodes == depthsGet(depths, depth - 1)
            IN [i \in 1..Len(previousNodes) |-> previousNodes[i].id]
       ELSE <<focalId>>

layerEdge(relation, depth, previousId, nodeId) ==
  [data |->
     [id |-> relation \o <<":">> \o toDecimal(depth) \o <<":">> \o toText(previousId)
               \o <<":">> \o toText(nodeId),
      source |-> IF relation = Str_caller THEN nodeId ELSE previousId,
      target |-> IF relation = Str_caller THEN previousId ELSE nodeId],
   classes |-> relation \o <<" ">> \o (IF depth = 1 THEN Str_direct ELSE Str_transitive)]

(* The edges of one bucket: for each node, one edge per previous node. *)
bucketEdges(relation, bucket, previous) ==
  [k \in 1..(Len(bucket.nodes) * Len(previous)) |->
     layerEdge(relation, bucket.depth,
               previous[((k - 1) % Len(previous)) + 1],
               bucket.nodes[((k - 1) \div Len(previous)) + 1].id)]

RECURSIVE layerEdges(_, _, _, _)
layerEdges(relation, depths, i, focalId) ==
  IF i > Len(depths) THEN <<>>
  ELSE bucketEdges(relation, depths[i], previousIds(depths, depths[i].depth, focalId))
         \o layerEdges(relation, depths, i + 1, focalId)

buildGraphElements(selected, data) ==
  IF selected = NoFunction THEN <<>>
  ELSE
    LET focalId == selected.function_id
        focal == upsertNode(<<>>, focalId, focalNodeData(selected), <<Str_focus>>)
        direct == neighborhoodLoop(data.neighborhood, 1, focalId,
                                   [nodeMap |-> focal, edgeList |-> <<>>])
        withCallers == transitiveLoop(data.callers, 1, focalId, Str_caller,
                                      [nodeMap |-> direct.nodeMap, depths |-> <<>>])
        withCallees == transitiveLoop(data.callChain, 1, focalId, Str_callee,
                                      [nodeMap |-> withCallers.nodeMap, depths |-> <<>>])
        edgeList == direct.edgeList
                      \o layerEdges(Str_caller, withCallers.depths, 1, focalId)
                      \o layerEdges(Str_callee, withCallees.depths, 1, focalId)
    IN [i \in 1..Len(withCallees.nodeMap) |-> withCallees.nodeMap[i].value] \o edgeList

(* --------------------------- bounded inputs ---------------------------- *)

MaxStored == 2

(* The strictly increasing index sequences of length at most n over 1..m:  *)
(* the ways to pick at most n entries of a catalogue, in catalogue order.  *)
OrderedPicks(m, n) ==
  { s \in UNION { [1..k -> 1..m] : k \in 0..n } :
      \A i \in 1..(Len(s) - 1) : s[i] < s[i + 1] }

PickFrom(catalogue, n) ==
  { [i \in 1..Len(s) |-> catalogue[s[i]]] : s \in OrderedPicks(Len(catalogue), n) }

RowOrders(seq) ==
  { [i \in 1..Len(seq) |-> seq[p[i]]] :
      p \in { q \in [1..Len(seq) -> 1..Len(seq)] :
                \A i, j \in 1..Len(seq) : q[i] = q[j] => i = j } }

Seg_ab == <<"a","b">>
Seg_cd == <<"c","d">>
Seg_ef == <<"e","f">>
Seg_zz == <<"z","z">>
Name_lib_x == <<"l","i","b","_","x",".","g","o">>
Name_libAx == <<"l","i","b","A","x",".","g","o">>
Name_m == <<"m",".","g","o">>

Slash == <<"/">>

(* A row of the sources table; its content is a comment line naming it. *)
SourceRow(file, package) ==
  [file |-> file, package |-> package, content |-> <<"/", "/", " ">> \o file]

StoredCatalogue ==
  << SourceRow(Seg_ab \o Slash \o Name_lib_x, Seg_ab),
     SourceRow(Seg_cd \o Slash \o Name_lib_x, Seg_cd),
     SourceRow(Seg_cd \o Slash \o Seg_ab \o Slash \o Name_lib_x, Seg_ab),
     SourceRow(Seg_ef \o Slash \o Seg_ab \o Slash \o Name_lib_x, Seg_ab),
     SourceRow(Seg_ab \o Slash \o Name_libAx, Seg_ab),
     SourceRow(Seg_ab \o Slash \o Name_m, Seg_ab) >>

ResolveInputs ==
  { Null,
    <<>>,
    <<" ", " ">>,
    Seg_ab \o Slash \o Name_lib_x,
    <<".", "/">> \o Seg_ab \o Slash \o Name_lib_x,
    <<"/", "/">> \o Seg_ab \o Slash \o Name_lib_x,
    <<".", "/", "/">> \o Seg_ab \o Slash \o Name_lib_x,
    <<" ">> \o Seg_ab \o <<"\\">> \o Name_lib_x \o <<" ">>,
    Seg_zz \o Slash \o Seg_ab \o Slash \o Name_lib_x,
    Seg_zz \o Slash \o Slash \o Seg_cd \o Slash \o Name_lib_x,
    Seg_zz \o Slash \o Name_lib_x,
    Seg_zz \o Slash \o Name_m,
    Seg_ab \o Slash \o Name_m,
    Name_m }

(* Stored queries and symbols. *)

MaxQueries == 2
MaxCalls == 3

Sql_callees == <<"C", "C">>

QueryRow(name, sql) == [name |-> name, sql |-> sql]

(* Stored queries: two with a text, one whose text is empty, one whose     *)
(* text is NULL; call_chain_pathfinder is never stored.                    *)
QueryCatalogue ==
  << QueryRow(CALL_GRAPH_QUERY_NAMES.symbolSearch, Sql_symbols),
     QueryRow(CALL_GRAPH_QUERY_NAMES.callChain, Sql_callees),
     QueryRow(CALL_GRAPH_QUERY_NAMES.callers, <<>>),
     QueryRow(CALL_GRAPH_QUERY_NAMES.neighborhood, Null) >>

SymbolRow(kind, id) == [kind |-> kind, function_id |-> id]

(* ------------------------- resolver: the machine ----------------------- *)

EmptyGraphData == [neighborhood |-> <<>>, callChain |-> <<>>, callers |-> <<>>]

GraphIdle ==
  /\ selectedFunction = NoFunction
  /\ graphView = "neighbors"
  /\ graphData = EmptyGraphData
  /\ activeGraphData = EmptyGraphData
  /\ graphElements = <<>>
  /\ previousElements = <<>>

NoLoad ==
  [functionMeta |-> NoFunction, arrived |-> 0, overtaken |-> FALSE, outcome |-> "none"]

TakeIdle == takeNodes = <<>> /\ takeBudget = 0 /\ taken = <<>>

LoadIdle ==
  /\ lastSettled = NoLoad
  /\ mode = "browse"
  /\ graphError = <<>>
  /\ isGraphLoading = FALSE
  /\ loads = <<>>
  /\ sourceLoads = {}

ResolverIdle == filePathArg = Null /\ resolved = Null

NoRequest == [route |-> "none", query |-> Null]
NoResponse == [status |-> 0, body |-> Null]

ServerIdle ==
  /\ functions = <<>>
  /\ request = NoRequest
  /\ response = NoResponse
  /\ storeCalls = <<>>

NoOutcome == [threw |-> <<>>, rows |-> <<>>, statement |-> <<>>]

(* A client object that was never asked for a named query. *)
RegistryFresh ==
  /\ preparedQueryStatements = {}
  /\ prepareCount = [name \in QueryNames |-> 0]
  /\ queryLog = <<>>
  /\ queryOutcome = NoOutcome

RegistryIdle == queries = <<>> /\ symbols = <<>> /\ RegistryFresh

BrowseIdle ==
  /\ fileBrowserIndex = EmptyIndex
  /\ browsePathArg = Null
  /\ hasDir = FALSE
  /\ listing = <<>>

InitResolve ==
  /\ op = "none"
  /\ sources \in PickFrom(StoredCatalogue, MaxStored)
  /\ filePathArg = Null
  /\ resolved = Null
  /\ BrowseIdle
  /\ ServerIdle
  /\ RegistryIdle
  /\ GraphIdle
  /\ LoadIdle
  /\ TakeIdle

(* One call of db.resolveSourceFilePath; the store is free to return the   *)
(* rows of a query in any order.                                           *)
Resolve ==
  \E filePath \in ResolveInputs, rows \in RowOrders(sources) :
    /\ op' = "resolve"
    /\ filePathArg' = filePath
    /\ resolved' = resolveSourceFilePath(filePath, rows)
    /\ UNCHANGED <<sources, browseVars, serverVars, registryVars, graphVars, loadVars, takeVars>>

NextResolve == Resolve

SpecResolve == InitResolve /\ [][NextResolve]_vars

(* ------------------------- resolver: the claims ------------------------ *)

StoredFiles == { sources[i].file : i \in DOMAIN sources }

(* The tails of the input's segments that are long enough to be tried.     *)
TriedTails(filePath) ==
  LET parts == splitPath(normalizeFilePath(filePath))
  IN { t \in { joinPath(SubSeq(parts, k, Len(parts))) : k \in 1..Len(parts) } :
         Len(t) >= MIN_SUFFIX_LENGTH }

Sharers(t) == { f \in StoredFiles : EndsWith(f, t) }

LeadingSlashCount(n) ==
  CHOOSE k \in 0..Len(n) :
    /\ \A i \in 1..k : n[i] = "/"
    /\ k = Len(n) \/ n[k + 1] # "/"

(* The three exact candidates, stated from the input alone. *)
CandidateAsGiven(n) == n
CandidateNoDotSlash(n) ==
  IF \E c \in { SubSeq(n, 3, Len(n)) } : n = <<".", "/">> \o c
  THEN SubSeq(n, 3, Len(n))
  ELSE n
CandidateNoLeadingSlashes(n) == SubSeq(n, LeadingSlashCount(n) + 1, Len(n))

IsStoredCandidate(c) == c # <<>> /\ c \in StoredFiles

NoExactCandidate(n) ==
  /\ ~IsStoredCandidate(CandidateAsGiven(n))
  /\ ~IsStoredCandidate(CandidateNoDotSlash(n))
  /\ ~IsStoredCandidate(CandidateNoLeadingSlashes(n))

(* C3 as stated: whenever every tried suffix is shared by two or more      *)
(* stored files, resolveSourceFilePath returns null.                       *)
C3_NullWhenEverySuffixShared ==
  ( /\ op = "resolve"
    /\ TriedTails(filePathArg) # {}
    /\ \A t \in TriedTails(filePathArg) : Cardinality(Sharers(t)) >= 2 )
    => resolved = Null

(* C3 as amended: when no exact candidate is a stored path and every tried *)
(* suffix is shared by two or more stored files, the result is null.       *)
C3_NullWhenAmbiguousAndNoExact ==
  ( /\ op = "resolve"
    /\ NoExactCandidate(normalizeFilePath(filePathArg))
    /\ \A t \in TriedTails(filePathArg) : Cardinality(Sharers(t)) >= 2 )
    => resolved = Null

C3_Witness ==
  /\ op = "resolve"
  /\ NoExactCandidate(normalizeFilePath(filePathArg))
  /\ TriedTails(filePathArg) # {}
  /\ \A t \in TriedTails(filePathArg) : Cardinality(Sharers(t)) >= 2
  /\ resolved = Null

(* C4: the exact candidates are tried before any suffix, in the order as   *)
(* given, without one leading "./", without all leading "/"; the first     *)
(* one that is a stored path is the result.                                *)
C4_ExactCandidatesInOrder ==
  op = "resolve" =>
    LET n == normalizeFilePath(filePathArg) IN
      /\ IsStoredCandidate(CandidateAsGiven(n)) => resolved = CandidateAsGiven(n)
      /\ ( /\ ~IsStoredCandidate(CandidateAsGiven(n))
           /\ IsStoredCandidate(CandidateNoDotSlash(n)) )
           => resolved = CandidateNoDotSlash(n)
      /\ ( /\ ~IsStoredCandidate(CandidateAsGiven(n))
           /\ ~IsStoredCandidate(CandidateNoDotSlash(n))
           /\ IsStoredCandidate(CandidateNoLeadingSlashes(n)) )
           => resolved = CandidateNoLeadingSlashes(n)

(* "./ab/lib_x.go" resolves to the stored "ab/lib_x.go" although the tail  *)
(* "ab/lib_x.go" is shared by two stored files.                            *)
C4_Witness ==
  /\ op = "resolve"
  /\ filePathArg = <<".", "/">> \o Seg_ab \o Slash \o Name_lib_x
  /\ Cardinality(Sharers(Seg_ab \o Slash \o Name_lib_x)) >= 2
  /\ resolved = Seg_ab \o Slash \o Name_lib_x

(* C5 as stated: with no exact candidate, the result is f exactly when f   *)
(* is the only stored path ending, character for character, with the       *)
(* longest tried suffix that exactly one stored path ends with.            *)
C5_SuffixMatchIsCharacterExact ==
  ( /\ op = "resolve"
    /\ normalizeFilePath(filePathArg) # <<>>
    /\ NoExactCandidate(normalizeFilePath(filePathArg)) )
    => LET unique == { t \in TriedTails(filePathArg) : Cardinality(Sharers(t)) = 1 }
       IN IF unique = {} THEN resolved = Null
          ELSE LET longest == CHOOSE t \in unique : \A u \in unique : Len(u) <= Len(t)
               IN resolved \in Sharers(longest)

(* C18: the result of resolveSourceFilePath is a function of the input and *)
(* of the set of stored files: whatever order the store returns matching   *)
(* rows in, and whatever calls came before, the same input gives the       *)
(* result that was observed.                                               *)
C18_ResolveIsDeterministic ==
  op = "resolve" =>
    \A rows \in RowOrders(sources) :
      resolveSourceFilePath(filePathArg, rows) = resolved

(* A call answered by the suffix stage with two files stored, of which     *)
(* both match a shorter tail of the input.                                 *)
C18_Witness ==
  /\ op = "resolve"
  /\ Len(sources) = 2
  /\ NoExactCandidate(normalizeFilePath(filePathArg))
  /\ resolved # Null
  /\ \E t \in TriedTails(filePathArg) : Cardinality(Sharers(t)) = 2

(* ----------------------- file browser: the machine --------------------- *)

MaxFiles == 3

(* The sequences of at most n distinct entries of a catalogue, any order. *)
DistinctPicks(catalogue, n) ==
  { [i \in 1..Len(s) |-> catalogue[s[i]]] :
      s \in { q \in UNION { [1..k -> 1..Len(catalogue)] : k \in 0..n } :
                \A i, j \in 1..Len(q) : q[i] = q[j] => i = j } }

Name_M == <<"M",".","g","o">>
Seg_Cd == <<"C","d">>

BrowseCatalogue ==
  << SourceRow(Seg_ab \o Slash \o Name_m, Seg_ab),
     SourceRow(Slash \o Seg_ab \o Slash \o Slash \o Name_M, Seg_ab),
     SourceRow(Seg_ab \o Slash \o Seg_cd \o Slash \o Name_m, Seg_cd),
     SourceRow(Seg_Cd \o <<"\\">> \o Name_m, Seg_Cd),
     SourceRow(Seg_ab \o Slash \o Seg_cd, Seg_ab),
     SourceRow(<<>>, Seg_zz),
     SourceRow(Name_m, Seg_zz) >>

BrowsePaths ==
  { <<>>,
    Seg_ab,
    Seg_ab \o Slash \o Seg_cd,
    Seg_ab \o Slash \o Seg_ef,
    Seg_Cd,
    Seg_cd,
    Seg_ab \o Slash,
    Name_m,
    Seg_ab \o Slash \o Name_m,
    Seg_ab \o Slash \o Seg_cd \o Slash \o Name_m,
    Seg_zz }

(* The index is built once, when the application is constructed. *)
InitBrowse ==
  /\ op = "none"
  /\ sources \in DistinctPicks(BrowseCatalogue, MaxFiles)
  /\ fileBrowserIndex = buildFileBrowserIndex(sources)
  /\ browsePathArg = Null
  /\ hasDir = FALSE
  /\ listing = <<>>
  /\ ResolverIdle
  /\ ServerIdle
  /\ RegistryIdle
  /\ GraphIdle
  /\ LoadIdle
  /\ TakeIdle

(* One call each of hasDirectory and listDirectory, on the same path. *)
Browse ==
  \E path \in BrowsePaths :
    /\ op' = "browse"
    /\ browsePathArg' = path
    /\ hasDir' = hasDirectory(fileBrowserIndex, path)
    /\ listing' = listDirectory(fileBrowserIndex, path)
    /\ UNCHANGED <<sources, fileBrowserIndex, resolverVars, serverVars, registryVars,
                   graphVars, loadVars, takeVars>>

NextBrowse == Browse

SpecBrowse == InitBrowse /\ [][NextBrowse]_vars

(* ----------------------- file browser: the claims ---------------------- *)

DirectoriesBeforeFiles(entries) ==
  \A i, j \in 1..Len(entries) :
    i < j => ~(entries[i].type = "file" /\ entries[j].type = "directory")

(* C6 as stated: directories before files, and within each type the names  *)
(* in non-decreasing case-sensitive (code-unit) lexicographic order.       *)
C6_ListingInCodeUnitOrder ==
  (op = "browse" /\ hasDir) =>
    /\ DirectoriesBeforeFiles(listing)
    /\ \A i, j \in 1..Len(listing) :
         (i < j /\ listing[i].type = listing[j].type)
           => codeUnitCompare(listing[i].name, listing[j].name) <= 0

(* C6 as amended: directories before files, and within each type the names *)
(* in non-decreasing order of localeCompare, where letters are compared    *)
(* alphabetically and case only breaks ties.                               *)
C6_ListingInLocaleOrder ==
  (op = "browse" /\ hasDir) =>
    /\ DirectoriesBeforeFiles(listing)
    /\ \A i, j \in 1..Len(listing) :
         (i < j /\ listing[i].type = listing[j].type)
           => localeCompare(listing[i].name, listing[j].name) <= 0

C6_Witness ==
  /\ op = "browse"
  /\ hasDir
  /\ Len(listing) = 3
  /\ listing[1].type = "directory"
  /\ listing[2].type = "file" /\ listing[2].name = Name_m
  /\ listing[3].type = "file" /\ listing[3].name = Name_M

(* The proper ancestor directories of the stored paths: the joined proper  *)
(* prefixes of a path's segments.                                          *)
ProperAncestors(file) ==
  LET parts == splitPath(replaceBackslashes(file))
  IN { joinPath(SubSeq(parts, 1, k)) : k \in 1..(Len(parts) - 1) }

IsKnownDirectory(path) ==
  path = <<>> \/ \E r \in DOMAIN sources : path \in ProperAncestors(sources[r].file)

(* C7: hasDirectory(p) is true exactly when p is the root or a proper      *)
(* ancestor directory of a known file path.                                *)
C7_HasDirectoryIffAncestor ==
  op = "browse" => (hasDir <=> IsKnownDirectory(browsePathArg))

C7_Witness ==
  /\ op = "browse"
  /\ browsePathArg = Seg_ab \o Slash \o Seg_cd
  /\ hasDir

(* The segments of a stored path, as the index splits them. *)
PartsOf(file) == splitPath(normalizeBrowsePath(file))

(* The known directories whose parent is d. *)
ChildDirectories(d) ==
  { p \in UNION { ProperAncestors(sources[r].file) : r \in DOMAIN sources } :
      LET parts == splitPath(p) IN joinPath(SubSeq(parts, 1, Len(parts) - 1)) = d }

(* The names of the stored files that lie directly in d. *)
FileNamesIn(d) ==
  { PartsOf(sources[r].file)[Len(PartsOf(sources[r].file))] :
      r \in { q \in DOMAIN sources :
                /\ PartsOf(sources[q].file) # <<>>
                /\ joinPath(SubSeq(PartsOf(sources[q].file), 1,
                                   Len(PartsOf(sources[q].file)) - 1)) = d } }

EntriesOf(type, name) ==
  { i \in DOMAIN listing : listing[i].type = type /\ listing[i].name = name }

(* C30: the listing of a known directory d holds exactly one 'directory'   *)
(* entry for each distinct immediate child directory of d and one 'file'   *)
(* entry for each file directly in d, and nothing else, also when a file   *)
(* and a directory under d have the same name.                             *)
C30_ListingHoldsEveryChild ==
  (op = "browse" /\ hasDir) =>
    /\ \A p \in ChildDirectories(browsePathArg) :
         Cardinality(EntriesOf("directory", splitPath(p)[Len(splitPath(p))])) = 1
    /\ \A name \in FileNamesIn(browsePathArg) :
         Cardinality(EntriesOf("file", name)) = 1
    /\ Len(listing) = Cardinality(ChildDirectories(browsePathArg))
                        + Cardinality(FileNamesIn(browsePathArg))

(* The listing of ab after ab/cd/m.go and then the file ab/cd were stored: *)
(* the directory cd is known and missing from the listing of its parent.   *)
C30_DirectoryLost ==
  /\ op = "browse"
  /\ browsePathArg = Seg_ab
  /\ hasDirectory(fileBrowserIndex, Seg_ab \o Slash \o Seg_cd)
  /\ Len(listing) = 1
  /\ listing[1].type = "file"
  /\ listing[1].name = Seg_cd

(* ------------------------- server: store queries ----------------------- *)

(* createDbClient is always given a path (the environment's or the         *)
(* default one), so the client the application holds is a configured one.  *)
dbConfigured == TRUE

compareFile(a, b) == codeUnitCompare(a.file, b.file)

(* listSourceFilesStatement: SELECT file, package FROM sources ORDER BY file *)
listSourceFiles(rows) ==
  stableSort(rows,
             [i \in 1..Len(rows) |-> [j \in 1..Len(rows) |-> compareFile(rows[i], rows[j])]])

(* getFunctionDetailStatement.get(functionId): the rows found, at most one *)
getFunctionDetail(functionId) ==
  LET hits == SelectSeq(functions, LAMBDA r : r.function_id = functionId)
  IN IF hits = <<>> THEN <<>> ELSE <<hits[1]>>

(* getSourceByFileStatement.get(filePath): the rows found, at most one *)
getSourceByFile(filePath) ==
  LET hits == SelectSeq(sources, LAMBDA r : r.file = filePath)
  IN IF hits = <<>> THEN <<>> ELSE <<hits[1]>>

(* listFunctionsByFileStatement: ORDER BY line, col, name.  The rows carry *)
(* no column: two functions of a file that start on one line are ordered   *)
(* by name.                                                                *)
compareLine(a, b) ==
  IF a.line < b.line THEN -1
  ELSE IF a.line > b.line THEN 1
  ELSE codeUnitCompare(a.name, b.name)

listFunctionsByFile(filePath) ==
  LET resolvedFilePath == resolveSourceFilePath(filePath, sources) IN
  IF resolvedFilePath = Null THEN <<>>
  ELSE LET found == SelectSeq(functions, LAMBDA r : r.file = resolvedFilePath)
       IN stableSort(found,
                     [i \in 1..Len(found) |->
                        [j \in 1..Len(found) |-> compareLine(found[i], found[j])]])

(* --------------------------- server: handlers -------------------------- *)

HttpError(statusCode) == [status |-> statusCode, body |-> [statusCode |-> statusCode]]

HttpOk(payload) == [status |-> 200, body |-> payload]

(* app.db as the handlers find it. *)
AppDb == DbState(queries, symbols, preparedQueryStatements, prepareCount)

(* What a handler leaves behind: the reply, the store operations it called *)
(* in order, and the registry afterwards.                                  *)
served(reply, calls, db) ==
  [status |-> reply.status, body |-> reply.body, calls |-> calls, db |-> db]

(* requireStringQueryParam that rejects only a value that is missing. *)
paramMissing(value) == value = Null

(* requireStringQueryParam throws 400 unless the value is a string that is *)
(* not blank; Null stands for a value that is missing or not a string.     *)
paramRejected(value) == value = Null \/ trim(value) = <<>>

RegisteredRoutes ==
  { "/health", "/health/db", "/queries", "/call-graph/search",
    "/call-graph/function-detail", "/call-graph/source",
    "/call-graph/file-functions", "/call-graph/files",
    "/call-graph/neighborhood", "/call-graph/call-chain",
    "/call-graph/callers", "/call-graph/path", "/" }

handleFunctionDetail(query) ==
  IF ~dbConfigured THEN served(HttpError(503), <<>>, AppDb)
  ELSE IF paramRejected(query.functionId) THEN served(HttpError(400), <<>>, AppDb)
  ELSE LET detail == getFunctionDetail(trim(query.functionId)) IN
       IF detail = <<>> THEN served(HttpError(404), <<"getFunctionDetail">>, AppDb)
       ELSE served(HttpOk(detail[1]), <<"getFunctionDetail">>, AppDb)

handleSource(query) ==
  IF ~dbConfigured THEN served(HttpError(503), <<>>, AppDb)
  ELSE IF paramRejected(query.functionId) THEN served(HttpError(400), <<>>, AppDb)
  ELSE LET detail == getFunctionDetail(trim(query.functionId)) IN
       IF detail = <<>> THEN served(HttpError(404), <<"getFunctionDetail">>, AppDb)
       ELSE LET source == getSourceByFile(detail[1].file) IN
            IF source = <<>>
            THEN served(HttpError(404), <<"getFunctionDetail", "getSourceByFile">>, AppDb)
            ELSE served(HttpOk([functionId |-> detail[1].function_id,
                                name |-> detail[1].name,
                                file |-> detail[1].file,
                                package |-> detail[1].package,
                                line |-> detail[1].line,
                                endLine |-> detail[1].end_line,
                                content |-> source[1].content]),
                        <<"getFunctionDetail", "getSourceByFile">>, AppDb)

handleFileFunctions(query) ==
  IF ~dbConfigured THEN served(HttpError(503), <<>>, AppDb)
  ELSE IF paramRejected(query.file) THEN served(HttpError(400), <<>>, AppDb)
  ELSE LET file == trim(query.file)
           resolvedFile == resolveSourceFilePath(file, sources)
           found == listFunctionsByFile(file)
       IN served(HttpOk([fileRequested |-> file,
                         fileResolved |-> resolvedFile,
                         count |-> Len(found),
                         functions |-> found]),
                 <<"resolveSourceFilePath", "listFunctionsByFile">>, AppDb)

(* handleFiles without the hasDirectory check. *)
handleFilesUnchecked(query) ==
  IF ~dbConfigured THEN served(HttpError(503), <<>>, AppDb)
  ELSE LET browsePath == normalizeBrowsePath(query.path)
           entries == listDirectory(fileBrowserIndex, browsePath)
       IN served(HttpOk([path |-> browsePath, count |-> Len(entries), entries |-> entries]),
                 <<>>, AppDb)

(* The directory listing is answered from the index built at start-up. *)
handleFiles(query) ==
  IF ~dbConfigured THEN served(HttpError(503), <<>>, AppDb)
  ELSE LET browsePath == normalizeBrowsePath(query.path) IN
       IF ~hasDirectory(fileBrowserIndex, browsePath) THEN served(HttpError(404), <<>>, AppDb)
       ELSE LET entries == listDirectory(fileBrowserIndex, browsePath) IN
            served(HttpOk([path |-> browsePath, count |-> Len(entries), entries |-> entries]),
                   <<>>, AppDb)

DEFAULT_SEARCH_LIMIT == 25
MAX_SEARCH_LIMIT == 50

RECURSIVE digitsValue(_)
digitsValue(digits) ==
  IF digits = <<>> THEN 0
  ELSE 10 * digitsValue(SubSeq(digits, 1, Len(digits) - 1))
         + (IndexOf(digits[Len(digits)], DigitChars) - 1)

(* Number(value) where Number.isInteger accepts it, nothing otherwise.     *)
(* Number(undefined) is NaN; a string is trimmed, "" is 0, and a decimal   *)
(* literal with an optional sign is its value, an integer when it has no   *)
(* fraction digit other than 0.  Hexadecimal, exponent and Infinity forms  *)
(* are not among the inputs.                                               *)
integerOfNumber(value) ==
  IF value = Null THEN <<>>
  ELSE LET text == trim(value) IN
       IF text = <<>> THEN <<0>>
       ELSE LET signed == text[1] \in {"-", "+"}
                body == IF signed THEN Tail(text) ELSE text
                dot == IndexOf(".", body)
                whole == IF dot = 0 THEN body ELSE SubSeq(body, 1, dot - 1)
                fraction == IF dot = 0 THEN <<>> ELSE SubSeq(body, dot + 1, Len(body))
                allDigits(part) == \A i \in 1..Len(part) : IndexOf(part[i], DigitChars) > 0
            IN IF whole \o fraction = <<>> \/ ~allDigits(whole) \/ ~allDigits(fraction)
               THEN <<>>
               ELSE IF \E i \in 1..Len(fraction) : fraction[i] # "0" THEN <<>>
               ELSE IF text[1] = "-" THEN << 0 - digitsValue(whole) >>
               ELSE << digitsValue(whole) >>

searchLimit(value) ==
  LET requestedLimit == integerOfNumber(value) IN
  IF requestedLimit # <<>>
  THEN Min(Max(requestedLimit[1], 1), MAX_SEARCH_LIMIT)
  ELSE DEFAULT_SEARCH_LIMIT

handleSearch(query) ==
  IF ~dbConfigured THEN served(HttpError(503), <<>>, AppDb)
  ELSE IF paramRejected(query.q) THEN served(HttpError(400), <<>>, AppDb)
  ELSE LET q == trim(query.q)
           limit == searchLimit(query.limit)
           run == runQueryByName(AppDb, CALL_GRAPH_QUERY_NAMES.symbolSearch,
                                 [pattern |-> <<"%">> \o q \o <<"%">>])
       IN IF run.threw # <<>> THEN served(HttpError(500), <<"runQueryByName">>, run.db)
          ELSE LET found == SelectSeq(run.rows, LAMBDA row : row.kind = "function")
                   page == SubSeq(found, 1, Min(limit, Len(found)))
               IN served(HttpOk([query |-> q, count |-> Len(page), functions |-> page]),
                         <<"runQueryByName">>, run.db)

(* The three traversal routes differ in the name of the query they run. *)
handleTraversal(queryName, query) ==
  IF ~dbConfigured THEN served(HttpError(503), <<>>, AppDb)
  ELSE IF paramRejected(query.functionId) THEN served(HttpError(400), <<>>, AppDb)
  ELSE LET functionId == trim(query.functionId)
           run == runQueryByName(AppDb, queryName, [function_id |-> functionId])
       IN IF run.threw # <<>> THEN served(HttpError(500), <<"runQueryByName">>, run.db)
          ELSE served(HttpOk([functionId |-> functionId, count |-> Len(run.rows),
                              nodes |-> run.rows]),
                      <<"runQueryByName">>, run.db)

handlePath(query) ==
  IF ~dbConfigured THEN served(HttpError(503), <<>>, AppDb)
  ELSE IF paramRejected(query.startFunctionId) THEN served(HttpError(400), <<>>, AppDb)
  ELSE IF paramRejected(query.endFunctionId) THEN served(HttpError(400), <<>>, AppDb)
  ELSE LET startFunctionId == trim(query.startFunctionId)
           endFunctionId == trim(query.endFunctionId)
           run == runQueryByName(AppDb, CALL_GRAPH_QUERY_NAMES.pathfinder,
                                 [start |-> startFunctionId, end |-> endFunctionId])
       IN IF run.threw # <<>> THEN served(HttpError(500), <<"runQueryByName">>, run.db)
          ELSE served(HttpOk([startFunctionId |-> startFunctionId,
                              endFunctionId |-> endFunctionId,
                              count |-> Len(run.rows), paths |-> run.rows]),
                      <<"runQueryByName">>, run.db)

(* A request for a route that was never registered gets the framework's   *)
(* "Route not found" answer.                                                *)
dispatch(route, query) ==
  IF route \notin RegisteredRoutes THEN served(HttpError(404), <<>>, AppDb)
  ELSE CASE route = "/call-graph/function-detail" -> handleFunctionDetail(query)
         [] route = "/call-graph/source" -> handleSource(query)
         [] route = "/call-graph/file-functions" -> handleFileFunctions(query)
         [] route = "/call-graph/files" -> handleFiles(query)
         [] route = "/call-graph/search" -> handleSearch(query)
         [] route = "/call-graph/neighborhood" ->
              handleTraversal(CALL_GRAPH_QUERY_NAMES.neighborhood, query)
         [] route = "/call-graph/call-chain" ->
              handleTraversal(CALL_GRAPH_QUERY_NAMES.callChain, query)
         [] route = "/call-graph/callers" ->
              handleTraversal(CALL_GRAPH_QUERY_NAMES.callers, query)
         [] route = "/call-graph/path" -> handlePath(query)

(* --------------------------- server: the machine ----------------------- *)

MaxSources == 3

MaxFunctions == 2

MaxSymbols == 6

Id_f1 == <<"f","1">>
Id_f2 == <<"f","2">>
Id_f3 == <<"f","3">>
Id_f9 == <<"f","9">>

FunctionRow(id, name, package, file, line, endLine) ==
  [function_id |-> id, name |-> name, package |-> package, file |-> file,
   line |-> line, end_line |-> endLine]

FunctionCatalogue ==
  << FunctionRow(Id_f1, <<"R","u","n">>, Seg_ab, Seg_ab \o Slash \o Name_lib_x, 7, 9),
     FunctionRow(Id_f2, <<"E","n","d">>, Seg_ab, Seg_ab \o Slash \o Name_lib_x, 2, 5),
     FunctionRow(Id_f3, <<"O","f","f">>, Seg_zz, Seg_zz \o Slash \o Name_m, 1, 4) >>

ServerCatalogue ==
  << SourceRow(Seg_cd \o Slash \o Seg_ab \o Slash \o Name_lib_x, Seg_ab),
     SourceRow(Seg_ab \o Slash \o Name_lib_x, Seg_ab),
     SourceRow(Seg_ab \o Slash \o Name_libAx, Seg_ab),
     SourceRow(Seg_ab \o Slash \o Seg_cd \o Slash \o Name_m, Seg_cd) >>

FunctionIdInputs ==
  { Null, <<" ">>, Id_f1, <<" ">> \o Id_f1 \o <<" ">>, Id_f3, Id_f9 }

FileInputs ==
  { Null,
    <<" ">>,
    Seg_ab \o Slash \o Name_lib_x,
    <<".", "/">> \o Seg_ab \o Slash \o Name_lib_x,
    Seg_zz \o Slash \o Seg_ab \o Slash \o Name_lib_x,
    Seg_zz \o Slash \o Name_lib_x,
    Seg_zz \o Slash \o Name_m }

BrowsePathInputs ==
  { Null,
    <<>>,
    Seg_ab,
    Seg_cd,
    Seg_ab \o Slash \o Seg_cd,
    Seg_ab \o Slash \o Name_lib_x,
    Seg_zz,
    <<" ", "/">> \o Seg_ab \o <<"/", " ">>,
    <<"\\">> \o Seg_ab \o <<"\\">> \o Seg_cd }

(* The symbol search's rows: every fourth one is not a function. *)
SymbolTable(n) ==
  [i \in 1..n |-> SymbolRow(IF i % 4 = 0 THEN "struct" ELSE "function",
                            <<"f">> \o toDecimal(i))]

(* Every query the server names, stored with a text. *)
AllQueriesStored ==
  << QueryRow(CALL_GRAPH_QUERY_NAMES.symbolSearch, Sql_symbols),
     QueryRow(CALL_GRAPH_QUERY_NAMES.neighborhood, <<"N", "B">>),
     QueryRow(CALL_GRAPH_QUERY_NAMES.callChain, Sql_callees),
     QueryRow(CALL_GRAPH_QUERY_NAMES.callers, <<"C", "R">>),
     QueryRow(CALL_GRAPH_QUERY_NAMES.pathfinder, <<"P", "F">>) >>

TraversalIdInputs == { Null, <<" ">>, <<" ">> \o Id_f1 \o <<" ">> }

(* q and limit of a search request. *)
SearchInputs ==
  { [q |-> Null, limit |-> Null], [q |-> <<" ">>, limit |-> <<"2">>] }
    \cup { [q |-> <<"R", "u">>, limit |-> limit] :
             limit \in { Null, <<>>, <<"2">>, <<"0">>, <<"9", "9">>, <<"-", "3">>,
                         <<"x">>, <<"1", ".", "5">> } }

PathInputs ==
  { [startFunctionId |-> Null, endFunctionId |-> Null],
    [startFunctionId |-> Null, endFunctionId |-> Id_f1],
    [startFunctionId |-> Id_f1, endFunctionId |-> Null],
    [startFunctionId |-> Id_f1, endFunctionId |-> <<" ", " ">>],
    [startFunctionId |-> Id_f1, endFunctionId |-> Id_f3] }

(* The store the server starts on: source files and functions with no      *)
(* named query stored, or the named queries and the symbols they select.    *)
Init ==
  /\ op = "none"
  /\ \/ /\ \/ /\ sources \in PickFrom(ServerCatalogue, MaxSources)
              /\ functions = SubSeq(FunctionCatalogue, 1,
                                    Min(MaxFunctions, Len(FunctionCatalogue)))
           \/ /\ sources = SubSeq(ServerCatalogue, 1, Min(MaxSources, Len(ServerCatalogue)))
              /\ functions \in PickFrom(FunctionCatalogue, MaxFunctions)
        /\ queries = <<>>
        /\ symbols = <<>>
     \/ /\ sources = <<>>
        /\ functions = <<>>
        /\ \/ /\ queries = AllQueriesStored
              /\ symbols = SymbolTable(MaxSymbols)
           \/ /\ queries = SubSeq(QueryCatalogue, 1, Min(MaxQueries, Len(QueryCatalogue)))
              /\ symbols \in { SymbolTable(0), SymbolTable(MAX_SEARCH_LIMIT + 20) }
  /\ fileBrowserIndex = buildFileBrowserIndex(listSourceFiles(sources))
  /\ browsePathArg = Null
  /\ hasDir = FALSE
  /\ listing = <<>>
  /\ ResolverIdle
  /\ request = NoRequest
  /\ response = NoResponse
  /\ storeCalls = <<>>
  /\ RegistryFresh
  /\ GraphIdle
  /\ LoadIdle
  /\ TakeIdle

GetFunctionDetail ==
  \E functionId \in FunctionIdInputs :
    \E result \in { dispatch("/call-graph/function-detail", [functionId |-> functionId]) } :
    /\ op' = "request"
    /\ request' = [route |-> "/call-graph/function-detail", query |-> [functionId |-> functionId]]
    /\ response' = [status |-> result.status, body |-> result.body]
    /\ storeCalls' = result.calls
    /\ preparedQueryStatements' = result.db.statements
    /\ prepareCount' = result.db.prepared
    /\ UNCHANGED <<sources, functions, queries, symbols, queryLog, queryOutcome,
                   resolverVars, browseVars, graphVars, loadVars, takeVars>>

GetSource ==
  \E functionId \in FunctionIdInputs :
    \E result \in { dispatch("/call-graph/source", [functionId |-> functionId]) } :
    /\ op' = "request"
    /\ request' = [route |-> "/call-graph/source", query |-> [functionId |-> functionId]]
    /\ response' = [status |-> result.status, body |-> result.body]
    /\ storeCalls' = result.calls
    /\ preparedQueryStatements' = result.db.statements
    /\ prepareCount' = result.db.prepared
    /\ UNCHANGED <<sources, functions, queries, symbols, queryLog, queryOutcome,
                   resolverVars, browseVars, graphVars, loadVars, takeVars>>

GetFileFunctions ==
  \E file \in FileInputs :
    \E result \in { dispatch("/call-graph/file-functions", [file |-> file]) } :
    /\ op' = "request"
    /\ request' = [route |-> "/call-graph/file-functions", query |-> [file |-> file]]
    /\ response' = [status |-> result.status, body |-> result.body]
    /\ storeCalls' = result.calls
    /\ preparedQueryStatements' = result.db.statements
    /\ prepareCount' = result.db.prepared
    /\ UNCHANGED <<sources, functions, queries, symbols, queryLog, queryOutcome,
                   resolverVars, browseVars, graphVars, loadVars, takeVars>>

GetFiles ==
  \E path \in BrowsePathInputs :
    \E result \in { dispatch("/call-graph/files", [path |-> path]) } :
    /\ op' = "request"
    /\ request' = [route |-> "/call-graph/files", query |-> [path |-> path]]
    /\ response' = [status |-> result.status, body |-> result.body]
    /\ storeCalls' = result.calls
    /\ preparedQueryStatements' = result.db.statements
    /\ prepareCount' = result.db.prepared
    /\ UNCHANGED <<sources, functions, queries, symbols, queryLog, queryOutcome,
                   resolverVars, browseVars, graphVars, loadVars, takeVars>>

(* The request the client's loadFile sends for the source text of a file. *)
GetFile ==
  \E file \in FileInputs :
    \E result \in { dispatch("/call-graph/file", [file |-> file]) } :
    /\ op' = "request"
    /\ request' = [route |-> "/call-graph/file", query |-> [file |-> file]]
    /\ response' = [status |-> result.status, body |-> result.body]
    /\ storeCalls' = result.calls
    /\ preparedQueryStatements' = result.db.statements
    /\ prepareCount' = result.db.prepared
    /\ UNCHANGED <<sources, functions, queries, symbols, queryLog, queryOutcome,
                   resolverVars, browseVars, graphVars, loadVars, takeVars>>

GetSearch ==
  \E query \in SearchInputs :
    \E result \in { dispatch("/call-graph/search", query) } :
    /\ op' = "request"
    /\ request' = [route |-> "/call-graph/search", query |-> query]
    /\ response' = [status |-> result.status, body |-> result.body]
    /\ storeCalls' = result.calls
    /\ preparedQueryStatements' = result.db.statements
    /\ prepareCount' = result.db.prepared
    /\ UNCHANGED <<sources, functions, queries, symbols, queryLog, queryOutcome,
                   resolverVars, browseVars, graphVars, loadVars, takeVars>>

GetNeighborhood ==
  \E functionId \in TraversalIdInputs :
    \E result \in { dispatch("/call-graph/neighborhood", [functionId |-> functionId]) } :
    /\ op' = "request"
    /\ request' = [route |-> "/call-graph/neighborhood", query |-> [functionId |-> functionId]]
    /\ response' = [status |-> result.status, body |-> result.body]
    /\ storeCalls' = result.calls
    /\ preparedQueryStatements' = result.db.statements
    /\ prepareCount' = result.db.prepared
    /\ UNCHANGED <<sources, functions, queries, symbols, queryLog, queryOutcome,
                   resolverVars, browseVars, graphVars, loadVars, takeVars>>

GetCallChain ==
  \E functionId \in TraversalIdInputs :
    \E result \in { dispatch("/call-graph/call-chain", [functionId |-> functionId]) } :
    /\ op' = "request"
    /\ request' = [route |-> "/call-graph/call-chain", query |-> [functionId |-> functionId]]
    /\ response' = [status |-> result.status, body |-> result.body]
    /\ storeCalls' = result.calls
    /\ preparedQueryStatements' = result.db.statements
    /\ prepareCount' = result.db.prepared
    /\ UNCHANGED <<sources, functions, queries, symbols, queryLog, queryOutcome,
                   resolverVars, browseVars, graphVars, loadVars, takeVars>>

GetCallers ==
  \E functionId \in TraversalIdInputs :
    \E result \in { dispatch("/call-graph/callers", [functionId |-> functionId]) } :
    /\ op' = "request"
    /\ request' = [route |-> "/call-graph/callers", query |-> [functionId |-> functionId]]
    /\ response' = [status |-> result.status, body |-> result.body]
    /\ storeCalls' = result.calls
    /\ preparedQueryStatements' = result.db.statements
    /\ prepareCount' = result.db.prepared
    /\ UNCHANGED <<sources, functions, queries, symbols, queryLog, queryOutcome,
                   resolverVars, browseVars, graphVars, loadVars, takeVars>>

GetPath ==
  \E query \in PathInputs :
    \E result \in { dispatch("/call-graph/path", query) } :
    /\ op' = "request"
    /\ request' = [route |-> "/call-graph/path", query |-> query]
    /\ response' = [status |-> result.status, body |-> result.body]
    /\ storeCalls' = result.calls
    /\ preparedQueryStatements' = result.db.statements
    /\ prepareCount' = result.db.prepared
    /\ UNCHANGED <<sources, functions, queries, symbols, queryLog, queryOutcome,
                   resolverVars, browseVars, graphVars, loadVars, takeVars>>

Next ==
  \/ GetFunctionDetail
  \/ GetSource
  \/ GetFileFunctions
  \/ GetFiles
  \/ GetFile
  \/ GetSearch
  \/ GetNeighborhood
  \/ GetCallChain
  \/ GetCallers
  \/ GetPath

Spec == Init /\ [][Next]_vars

(* ---------------------------- server: the claims ----------------------- *)

Requested(route) == op = "request" /\ request.route = route

(* C8: GET /call-graph/files answers 404 whenever the normalized path is   *)
(* not a known directory, and otherwise a payload whose count is the       *)
(* number of entries listed for that directory.                            *)
C8_FilesNotFoundOrCounted ==
  Requested("/call-graph/files") =>
    LET path == normalizeBrowsePath(request.query.path) IN
      IF ~IsKnownDirectory(path)
      THEN response.status = 404
      ELSE /\ response.status = 200
           /\ response.body.path = path
           /\ response.body.entries = listDirectory(fileBrowserIndex, path)
           /\ response.body.count = Len(response.body.entries)

C8_Witness ==
  /\ Requested("/call-graph/files")
  /\ sources # <<>>
  /\ ~IsKnownDirectory(normalizeBrowsePath(request.query.path))
  /\ response.status = 404

ParamGiven(value) == value # Null /\ trim(value) # <<>>

KnownFunctionIds == { functions[i].function_id : i \in DOMAIN functions }

(* C9: a request naming an unknown function id, an unresolvable file path  *)
(* or an unknown directory is answered 404, never with a success payload.  *)
C9_UnknownIsNotFound ==
  /\ ( /\ Requested("/call-graph/function-detail") \/ Requested("/call-graph/source")
       /\ ParamGiven(request.query.functionId)
       /\ trim(request.query.functionId) \notin KnownFunctionIds )
       => response.status = 404
  /\ ( /\ Requested("/call-graph/file-functions") \/ Requested("/call-graph/file")
       /\ ParamGiven(request.query.file)
       /\ resolveSourceFilePath(trim(request.query.file), sources) = Null )
       => response.status = 404
  /\ ( /\ Requested("/call-graph/files")
       /\ ~IsKnownDirectory(normalizeBrowsePath(request.query.path)) )
       => response.status = 404

(* C10: GET /call-graph/file with a file parameter that resolves to a      *)
(* stored source file answers 200 with fileRequested, fileResolved,        *)
(* package and content of the resolved path.                               *)
C10_FileEndpointServesSource ==
  ( /\ Requested("/call-graph/file")
    /\ ParamGiven(request.query.file)
    /\ resolveSourceFilePath(trim(request.query.file), sources) # Null )
    => LET resolvedFile == resolveSourceFilePath(trim(request.query.file), sources) IN
         /\ response.status = 200
         /\ response.body.fileRequested = trim(request.query.file)
         /\ response.body.fileResolved = resolvedFile
         /\ \E r \in DOMAIN sources :
              /\ sources[r].file = resolvedFile
              /\ response.body.package = sources[r].package
              /\ response.body.content = sources[r].content

(* ------------------------ query registry: the machine ------------------ *)

InitRegistry ==
  /\ op = "none"
  /\ sources = <<>>
  /\ ResolverIdle
  /\ BrowseIdle
  /\ ServerIdle
  /\ GraphIdle
  /\ LoadIdle
  /\ TakeIdle
  /\ queries \in PickFrom(QueryCatalogue, MaxQueries)
  /\ symbols = << SymbolRow("function", <<"f","1">>) >>
  /\ RegistryFresh

RunQueryByName ==
  \E queryName \in QueryNames :
    /\ Len(queryLog) < MaxCalls
    /\ op' = "runQueryByName"
    /\ queryLog' = Append(queryLog, queryName)
    /\ LET run == runQueryByName(DbState(queries, symbols, preparedQueryStatements,
                                         prepareCount),
                                 queryName, [pattern |-> <<"%">>])
       IN /\ queryOutcome' = [threw |-> run.threw, rows |-> run.rows,
                              statement |-> run.statement]
          /\ preparedQueryStatements' = run.db.statements
          /\ prepareCount' = run.db.prepared
    /\ UNCHANGED <<sources, queries, symbols, resolverVars, browseVars, serverVars,
                   graphVars, loadVars, takeVars>>

NextRegistry == RunQueryByName

SpecRegistry == InitRegistry /\ [][NextRegistry]_vars

(* ------------------------ query registry: the claims ------------------- *)

LastQueryName == queryLog[Len(queryLog)]

CallsOf(queryName) == Cardinality({ i \in 1..Len(queryLog) : queryLog[i] = queryName })

(* A name with stored query text: a row of the queries table under that    *)
(* name whose sql is neither NULL nor empty.                               *)
HasStoredText(queryName) ==
  \E i \in 1..Len(queries) :
    queries[i].name = queryName /\ queries[i].sql # Null /\ queries[i].sql # <<>>

CachedNames == { e.name : e \in preparedQueryStatements }

(* C12: a runQueryByName call with a name that has no stored query text    *)
(* fails with the "Unknown query" error, returns no rows and leaves the    *)
(* statement cache as it was, on the first call and on every later one.    *)
C12_UnknownQueryFails ==
  [][ (op' = "runQueryByName" /\ ~HasStoredText(queryLog'[Len(queryLog')])) =>
        /\ queryOutcome'.threw = <<"Unknown query: ", queryLog'[Len(queryLog')]>>
        /\ queryOutcome'.rows = <<>>
        /\ preparedQueryStatements' = preparedQueryStatements
        /\ queryLog'[Len(queryLog')] \notin { e.name : e \in preparedQueryStatements' } ]_vars

(* A second call with a name whose stored text is empty, after another     *)
(* name was compiled and cached.                                           *)
C12_Witness ==
  /\ op = "runQueryByName"
  /\ ~HasStoredText(LastQueryName)
  /\ \E i \in 1..Len(queries) : queries[i].name = LastQueryName
  /\ CallsOf(LastQueryName) >= 2
  /\ CachedNames # {}
  /\ queryOutcome.threw # <<>>

(* C13: over any sequence of runQueryByName calls a name's statement is    *)
(* compiled at most once; a cache entry, once made, is never replaced or   *)
(* removed, and a call for a cached name executes the cached statement     *)
(* without compiling.                                                      *)
C13_CompiledOnceAndKept ==
  [][ /\ \A e \in preparedQueryStatements : e \in preparedQueryStatements'
      /\ \A name \in QueryNames : prepareCount'[name] <= 1
      /\ \A e \in preparedQueryStatements :
            (op' = "runQueryByName" /\ queryLog'[Len(queryLog')] = e.name) =>
              /\ queryOutcome'.statement = <<e.statement>>
              /\ prepareCount' = prepareCount ]_vars

(* Three calls, the last for a name that was compiled by an earlier one,   *)
(* with a second name compiled in between.                                 *)
C13_Witness ==
  /\ op = "runQueryByName"
  /\ CallsOf(LastQueryName) >= 2
  /\ LastQueryName \in CachedNames
  /\ Cardinality(CachedNames) = 2
  /\ prepareCount[LastQueryName] = 1
  /\ queryOutcome.rows # <<>>

(* ------------------------ graph assembly as a state machine ------------ *)

MaxDirect == 2
MaxCallers == 2
MaxCallees == 2
NearBudget == 3

Id_focal == <<"f","0">>
Id_shared == <<"s","1">>
Id_c1 == <<"c","1">>
File_ab_m == Seg_ab \o Slash \o Name_m
File_cd_k == Seg_cd \o Slash \o <<"K",".","G","O">>

FocalFunction ==
  [function_id |-> Id_focal, name |-> <<"R","u","n">>, file |-> File_ab_m, line |-> 3,
   package |-> Seg_ab]

(* Direct neighbors: the focal function itself (direct recursion) and a     *)
(* callee that the transitive answer repeats and that is a caller as well.  *)
NeighborCatalogue ==
  << TraversalRow(Id_focal, <<"R","u","n">>, File_ab_m, 3, Seg_ab, Str_callee, 1),
     TraversalRow(Id_shared, <<"s","1">>, File_cd_k, 4, Seg_cd, Str_callee, 1),
     TraversalRow(Id_shared, <<"s","1">>, File_cd_k, 4, Seg_cd, Str_caller, 1) >>

(* Transitive callers: one id at two depths, a row of the focal function,   *)
(* an external symbol without file or package.                              *)
CallerCatalogue ==
  << TraversalRow(Id_c1, <<"b">>, File_ab_m, 5, Seg_ab, Str_caller, 1),
     TraversalRow(Id_c1, <<"b">>, File_ab_m, 5, Seg_ab, Str_caller, 2),
     TraversalRow(Id_focal, <<"R","u","n">>, File_ab_m, 3, Seg_ab, Str_caller, 2),
     TraversalRow(<<"e","x","t",":",":","q">>, <<"Q">>, Null, 0, Null, Str_caller, 2) >>

(* Transitive callees: an id that is also a caller, an id that is also a    *)
(* direct neighbor, a row without an id, a file that is not Go source and   *)
(* has no depth.                                                            *)
CalleeCatalogue ==
  << TraversalRow(Id_c1, <<"b">>, File_ab_m, 5, Seg_ab, Str_callee, 2),
     TraversalRow(Id_shared, <<"s","1">>, File_cd_k, 4, Seg_cd, Str_callee, 1),
     TraversalRow(Null, <<"n","o">>, File_ab_m, 1, Seg_ab, Str_callee, 1),
     TraversalRow(<<"p","y">>, <<"p","y">>, <<"t",".","p","y">>, 1, Null, Str_callee, 0) >>

(* Further direct neighbors n1, n2, ...: callers and callees alternate. *)
PaddingRow(i) ==
  TraversalRow(<<"n">> \o toDecimal(i), <<"n">> \o toDecimal(i), File_ab_m, 10 + i, Seg_ab,
               IF i % 2 = 1 THEN Str_caller ELSE Str_callee, 1)

PaddingCounts == {0} \cup ((MAX_GRAPH_NODES - 1 - NearBudget)..MAX_GRAPH_NODES)

InitGraph ==
  /\ op = "none"
  /\ sources = <<>>
  /\ ResolverIdle
  /\ BrowseIdle
  /\ ServerIdle
  /\ RegistryIdle
  /\ graphView \in {"neighbors", "deep"}
  /\ \E direct \in PickFrom(NeighborCatalogue, MaxDirect), padding \in PaddingCounts,
        callers \in PickFrom(CallerCatalogue, MaxCallers),
        callChain \in PickFrom(CalleeCatalogue, MaxCallees) :
       /\ graphData =
            [neighborhood |-> direct \o [i \in 1..padding |-> PaddingRow(i)],
             callChain |-> callChain, callers |-> callers]
       /\ padding > 0 => direct = <<>>
       /\ \/ selectedFunction = FocalFunction /\ graphView = "deep"
          \/ /\ selectedFunction = FocalFunction /\ graphView = "neighbors"
             /\ padding \in {0, MAX_GRAPH_NODES}
          \/ selectedFunction = NoFunction /\ padding = 0
  /\ activeGraphData = EmptyGraphData
  /\ graphElements = <<>>
  /\ previousElements = <<>>
  /\ LoadIdle
  /\ TakeIdle

(* One render: the two memoised values are recomputed from their inputs. *)
Render ==
  /\ op = "none"
  /\ op' = "render"
  /\ activeGraphData' = selectGraphData(graphData, graphView, selectedFunction)
  /\ graphElements' = buildGraphElements(selectedFunction, activeGraphData')
  /\ previousElements' = graphElements
  /\ UNCHANGED <<sources, resolverVars, browseVars, serverVars, registryVars,
                 selectedFunction, graphView, graphData, loadVars, takeVars>>

(* A second render with the same focal function, result sets and view: the *)
(* two functions run again on the inputs of the first render.               *)
Rerender ==
  /\ op = "render"
  /\ op' = "rerender"
  /\ activeGraphData' = selectGraphData(graphData, graphView, selectedFunction)
  /\ graphElements' = buildGraphElements(selectedFunction, activeGraphData')
  /\ previousElements' = graphElements
  /\ UNCHANGED <<sources, resolverVars, browseVars, serverVars, registryVars,
                 selectedFunction, graphView, graphData, loadVars, takeVars>>

NextGraph == Render \/ Rerender

SpecGraph == InitGraph /\ [][NextGraph]_vars

(* ------------------------ graph assembly: the claims ------------------- *)

Rendered == op \in {"render", "rerender"}

isEdge(element) == "source" \in DOMAIN element.data

GraphElementSet == { graphElements[i] : i \in 1..Len(graphElements) }
GraphEdges == { element \in GraphElementSet : isEdge(element) }
GraphNodeIds == { element.data.id : element \in GraphElementSet \ GraphEdges }

idsOf(rows) == { rows[i].id : i \in 1..Len(rows) }

(* The distinct ids of the direct neighbors that pass the allowed filter. *)
AllowedDirectIds == idsOf(SelectSeq(graphData.neighborhood, isAllowedGraphNode))

(* The transitive rows that could have been shown: allowed, not the focal   *)
(* function, not a direct neighbor.                                         *)
TransitiveCandidateIds ==
  idsOf(SelectSeq(graphData.callers \o graphData.callChain, isAllowedGraphNode))
    \ (AllowedDirectIds \cup {selectedFunction.function_id})

(* C1 as stated: whatever the focal function and the sizes of the three     *)
(* result sets, the rendered model never has more distinct nodes than the   *)
(* node budget MAX_GRAPH_NODES.                                             *)
C1_NodesWithinBudget ==
  Rendered => Cardinality(GraphNodeIds) <= MAX_GRAPH_NODES

(* C1 amended: the rendered model has at most as many distinct nodes as the *)
(* larger of the node budget and one (the focal function) plus the number   *)
(* of distinct allowed direct neighbors: the direct layer is never cut.     *)
C1_NodesWithinBudgetOrDirectLayer ==
  Rendered =>
    Cardinality(GraphNodeIds)
      <= Max(MAX_GRAPH_NODES, 1 + Cardinality(AllowedDirectIds))

(* A deep view filled exactly to the budget, with a transitive candidate    *)
(* left out.                                                                *)
C1_Witness ==
  /\ Rendered
  /\ graphView = "deep"
  /\ Cardinality(GraphNodeIds) = MAX_GRAPH_NODES
  /\ TransitiveCandidateIds \ GraphNodeIds # {}
  /\ TransitiveCandidateIds \cap GraphNodeIds # {}

(* C2: in every rendered model the source and the target of every edge are *)
(* ids of nodes of the model, also when an id occurs in several rows or a   *)
(* row carries the focal function's own id.                                 *)
C2_EdgeEndpointsAreNodes ==
  Rendered =>
    LET nodeIds == GraphNodeIds
    IN \A edge \in GraphEdges :
         edge.data.source \in nodeIds /\ edge.data.target \in nodeIds

(* A deep view whose direct layer holds a row of the focal function itself  *)
(* and whose callers hold one id at two depths, with edges drawn for both.  *)
C2_Witness ==
  /\ Rendered
  /\ selectedFunction = FocalFunction
  /\ hasId(activeGraphData.neighborhood, Id_focal)
  /\ \E i, j \in 1..Len(activeGraphData.callers) :
       i < j /\ activeGraphData.callers[i].id = activeGraphData.callers[j].id
  /\ \E direct, layered \in GraphEdges :
       /\ direct.data.source = Id_focal /\ direct.data.target = Id_focal
       /\ layered.data.source = Id_c1 /\ layered.data.target = Id_c1

DeepRendered == Rendered /\ graphView = "deep"

(* Node budget, less the focal function, less the distinct allowed direct   *)
(* neighbors; negative when the direct layer alone exceeds the budget.      *)
RemainingAfterDirect == MAX_GRAPH_NODES - 1 - Cardinality(AllowedDirectIds)

(* The transitive rows on offer: allowed and not a direct neighbor. *)
CandidateRows(rows) ==
  LET directIds == AllowedDirectIds
  IN SelectSeq(rows, LAMBDA node : isAllowedGraphNode(node) /\ node.id \notin directIds)

SelectedTransitiveCount == Len(activeGraphData.callers) + Len(activeGraphData.callChain)

(* C15 as stated: when the direct neighbors leave of the node budget what   *)
(* 10 direct neighbors leave of a budget of 12, the deep-view selection     *)
(* holds no transitive caller and no transitive callee, whatever the        *)
(* candidates.                                                              *)
C15_NoTransitiveWithOneLeft ==
  (DeepRendered /\ RemainingAfterDirect = 12 - 1 - 10) =>
    activeGraphData.callers = <<>> /\ activeGraphData.callChain = <<>>

(* C15 amended: with that remaining budget of one, the callers' share is    *)
(* zero and the callees' share is one: the selection holds one transitive   *)
(* node whenever a candidate exists, a callee if there is a callee          *)
(* candidate and otherwise a caller.                                        *)
C15_OneTransitiveWithOneLeft ==
  (DeepRendered /\ RemainingAfterDirect = 12 - 1 - 10) =>
    LET callerRows == CandidateRows(graphData.callers)
        calleeRows == CandidateRows(graphData.callChain)
    IN /\ SelectedTransitiveCount = Min(1, Len(callerRows) + Len(calleeRows))
       /\ calleeRows # <<>> => activeGraphData.callers = <<>>

(* A remaining budget of one with a caller and a callee on offer: the       *)
(* callee is selected.                                                      *)
C15_Witness ==
  /\ DeepRendered
  /\ RemainingAfterDirect = 1
  /\ CandidateRows(graphData.callers) # <<>>
  /\ CandidateRows(graphData.callChain) # <<>>
  /\ Len(activeGraphData.callChain) = 1

(* C20: in the deep view, with remaining the node budget less one less the  *)
(* number of distinct direct nodes (taken as zero when negative), the       *)
(* initial caller selection has at most floor(remaining / 2) nodes, the     *)
(* initial callee selection at most remaining - floor(remaining / 2), the   *)
(* final selection at most remaining transitive nodes; when remaining is    *)
(* zero or less the model holds only the focal and the direct nodes.        *)
C20_BudgetSplit ==
  DeepRendered =>
    LET remaining == Max(RemainingAfterDirect, 0)
        initial == initialSelection(filterGraphData(graphData), selectedFunction)
    IN /\ Len(initial.callers) <= remaining \div 2
       /\ Len(initial.callChain) <= remaining - (remaining \div 2)
       /\ SelectedTransitiveCount <= remaining
       /\ RemainingAfterDirect <= 0 =>
            GraphNodeIds \subseteq AllowedDirectIds \cup {selectedFunction.function_id}

(* A remaining budget of two, one for each side, with more caller rows on   *)
(* offer than the callers' share.                                           *)
C20_Witness ==
  /\ DeepRendered
  /\ RemainingAfterDirect = 2
  /\ Len(CandidateRows(graphData.callers)) = 2
  /\ Len(activeGraphData.callers) = 1
  /\ Len(activeGraphData.callChain) = 1

PreviousElementSet == { previousElements[i] : i \in 1..Len(previousElements) }

CandidateIds ==
  idsOf(CandidateRows(graphData.callers)) \cup idsOf(CandidateRows(graphData.callChain))

SelectedTransitiveIds == idsOf(activeGraphData.callers) \cup idsOf(activeGraphData.callChain)

(* C22: in the deep view, after the leftover redistribution, the number of *)
(* selected transitive nodes is the smaller of the remaining budget and the *)
(* number of candidate nodes of the two pools that are not direct           *)
(* neighbors: a candidate is left out only when the budget is used up.      *)
C22_NoBudgetWasted ==
  DeepRendered =>
    Cardinality(SelectedTransitiveIds)
      = Min(Max(RemainingAfterDirect, 0), Cardinality(CandidateIds))

rowsOf(rows) == { rows[i] : i \in 1..Len(rows) }

(* The rows the leftover redistribution added to the two selections. *)
ExtraCount ==
  LET initial == initialSelection(filterGraphData(graphData), selectedFunction)
  IN SelectedTransitiveCount - Len(initial.callers) - Len(initial.callChain)

(* C23: every row of the selected callers is a row of the callers result   *)
(* set and every row of the selected callees a row of the call-chain       *)
(* result set: an extra of the redistribution goes back to the pool it was  *)
(* taken from, also when an id occurs in both result sets.                  *)
C23_ExtrasReturnToTheirPool ==
  DeepRendered =>
    /\ rowsOf(activeGraphData.callers) \subseteq rowsOf(graphData.callers)
    /\ rowsOf(activeGraphData.callChain) \subseteq rowsOf(graphData.callChain)

(* An extra was added while one id is in both result sets. *)
C23_Witness ==
  /\ DeepRendered
  /\ ExtraCount > 0
  /\ idsOf(graphData.callers) \cap idsOf(graphData.callChain) # {}
  /\ Len(activeGraphData.callers) > 1

(* An extra taken from the callee candidates. *)
C23_CalleeExtra ==
  /\ DeepRendered
  /\ ExtraCount > 0
  /\ graphData.callers = <<>>

(* ------------------ graph assembly: claims on the element model -------- *)

FocalId == selectedFunction.function_id

(* The selected transitive rows of a relation that the model draws: rows   *)
(* of the focal function are skipped.                                       *)
DrawnRows(relation) ==
  { row \in rowsOf(IF relation = Str_caller THEN activeGraphData.callers
                   ELSE activeGraphData.callChain) : row.id # FocalId }

DirectEdges == { directEdge(FocalId, row) : row \in rowsOf(activeGraphData.neighborhood) }

(* The edges of the model that the depth layers produced. *)
LayerEdgesOfModel == GraphEdges \ DirectEdges

Relations == {Str_caller, Str_callee}

(* The edges C24 states: a row at depth 1 is linked to the focal node, a   *)
(* row at depth d >= 2 to every drawn row at depth d - 1 of its relation.  *)
EdgesToLayerAbove(relation) ==
  { layerEdge(relation, row.depth, FocalId, row.id) :
      row \in { r \in DrawnRows(relation) : r.depth = 1 } }
    \cup UNION { { layerEdge(relation, row.depth, above.id, row.id) :
                     above \in { a \in DrawnRows(relation) : a.depth = row.depth - 1 } } :
                 row \in { r \in DrawnRows(relation) : r.depth >= 2 } }

(* The same, with the focal node standing in when no drawn row of the      *)
(* relation is one level up.                                                *)
EdgesToLayerAboveOrFocal(relation) ==
  UNION { LET above == { a \in DrawnRows(relation) : a.depth = row.depth - 1 }
          IN IF row.depth = 1 \/ above = {}
             THEN { layerEdge(relation, row.depth, FocalId, row.id) }
             ELSE { layerEdge(relation, row.depth, a.id, row.id) : a \in above } :
          row \in DrawnRows(relation) }

(* C24 as stated: every selected transitive node at depth d >= 2 has an    *)
(* edge to every selected node at depth d - 1 of its relation and to no     *)
(* other node, and only nodes at depth 1 are connected to the focal node.   *)
C24_LayersLinkedToLayerAbove ==
  (Rendered /\ selectedFunction # NoFunction) =>
    LayerEdgesOfModel = UNION { EdgesToLayerAbove(relation) : relation \in Relations }

(* C24 amended: a selected transitive node at depth d has an edge to every *)
(* selected node at depth d - 1 of its relation when there is one, and      *)
(* otherwise (d = 1, or no selected node of the relation at depth d - 1)    *)
(* one edge to the focal node; the layers produce no other edge.            *)
C24_LayersLinkedToLayerAboveOrFocal ==
  (Rendered /\ selectedFunction # NoFunction) =>
    LayerEdgesOfModel = UNION { EdgesToLayerAboveOrFocal(relation) : relation \in Relations }

(* A caller at depth 2 linked to the caller at depth 1, and a callee at    *)
(* depth 2 linked to the focal node for want of a callee at depth 1.        *)
C24_Witness ==
  /\ DeepRendered
  /\ \E row \in DrawnRows(Str_caller), above \in DrawnRows(Str_caller) :
       /\ row.depth = 2 /\ above.depth = 1 /\ row.id # above.id
       /\ layerEdge(Str_caller, 2, above.id, row.id) \in GraphEdges
  /\ \E row \in DrawnRows(Str_callee) :
       /\ row.depth = 2
       /\ layerEdge(Str_callee, 2, FocalId, row.id) \in GraphEdges

EdgeCount(source, target, classes) ==
  Cardinality({ i \in 1..Len(graphElements) :
                  /\ isEdge(graphElements[i])
                  /\ graphElements[i].data.source = source
                  /\ graphElements[i].data.target = target
                  /\ graphElements[i].classes = classes })

DepthsOf(relation, id) == { row.depth : row \in { r \in DrawnRows(relation) : r.id = id } }

(* The end of a layer edge on the focal side is the focal node or a drawn   *)
(* row of the relation less deep than the row at the other end.             *)
PointsAway(relation, near, far) ==
  \E d \in DepthsOf(relation, far) :
    near = FocalId \/ \E e \in DepthsOf(relation, near) : e < d

GraphNodes == GraphElementSet \ GraphEdges

TagsOf(classes) == rowsOf(splitWords(classes, <<>>, <<>>))

(* The tags of every insertion the code makes for an id. *)
InsertedTags(id) ==
  (IF id = FocalId THEN {Str_focus} ELSE {})
    \cup UNION { {row.direction, Str_direct} :
                   row \in { r \in rowsOf(activeGraphData.neighborhood) : r.id = id } }
    \cup UNION { UNION { {relation, Str_transitive, depthTag(row.depth)} :
                           row \in { r \in DrawnRows(relation) : r.id = id } } :
                 relation \in Relations }

(* C26: the model holds one node per id, and the tags of each node are the *)
(* union of the tags of every insertion made for its id: a node that is     *)
(* caller and callee carries both tags, the focal node keeps "focus" when   *)
(* it is also a neighbor.                                                   *)
C26_OneNodePerIdWithAllTags ==
  (Rendered /\ selectedFunction # NoFunction) =>
    /\ \A i, j \in 1..Len(graphElements) :
         (i < j /\ ~isEdge(graphElements[i]) /\ ~isEdge(graphElements[j]))
           => graphElements[i].data.id # graphElements[j].data.id
    /\ \A node \in GraphNodes : TagsOf(node.classes) = InsertedTags(node.data.id)

(* The focal node is also a direct callee, and one node is a transitive    *)
(* caller and a transitive callee.                                          *)
C26_Witness ==
  /\ DeepRendered
  /\ \E node \in GraphNodes :
       /\ node.data.id = FocalId
       /\ {Str_focus, Str_callee, Str_direct} \subseteq TagsOf(node.classes)
  /\ \E node \in GraphNodes :
       {Str_caller, Str_callee, Str_transitive, depthTag(1), depthTag(2)}
         \subseteq TagsOf(node.classes)

Str_go == <<".","g","o">>

FetchedRows ==
  rowsOf(graphData.neighborhood) \cup rowsOf(graphData.callChain)
    \cup rowsOf(graphData.callers)

HasNoFile(row) == row.file = Null \/ row.file = <<>>

EdgeEndpoints == { edge.data.source : edge \in GraphEdges }
                   \cup { edge.data.target : edge \in GraphEdges }

(* C27 as stated: every node but the focal one, and every edge endpoint,   *)
(* is the id of a fetched row that has an id and either no file or a file  *)
(* whose name ends in ".go".                                                *)
C27_NodesFromGoRows ==
  (Rendered /\ selectedFunction # NoFunction) =>
    (GraphNodeIds \cup EdgeEndpoints) \ {FocalId}
      \subseteq { row.id : row \in { r \in FetchedRows :
                                       /\ r.id # Null /\ r.id # <<>>
                                       /\ HasNoFile(r) \/ EndsWith(r.file, Str_go) } }

(* C27 amended: the same, the extension compared without regard to letter *)
(* case.                                                                    *)
C27_NodesFromGoRowsInAnyCase ==
  (Rendered /\ selectedFunction # NoFunction) =>
    (GraphNodeIds \cup EdgeEndpoints) \ {FocalId}
      \subseteq { row.id : row \in { r \in FetchedRows :
                                       /\ r.id # Null /\ r.id # <<>>
                                       /\ HasNoFile(r)
                                            \/ EndsWith(toLowerCase(r.file), Str_go) } }

(* A deep view that was offered a row without an id and a row of a Python  *)
(* file and drew neither, next to a node whose file ends in ".GO" and an    *)
(* external node without a file.                                            *)
C27_Witness ==
  /\ DeepRendered
  /\ \E row \in rowsOf(graphData.callChain) : row.id = Null
  /\ \E row \in rowsOf(graphData.callChain) :
       /\ row.id # Null /\ ~HasNoFile(row) /\ ~EndsWith(toLowerCase(row.file), Str_go)
       /\ row.id \notin GraphNodeIds
  /\ \E node \in GraphNodes :
       /\ node.data.id # FocalId
       /\ node.data.file # Null
       /\ ~EndsWith(node.data.file, Str_go)
  /\ \E node \in GraphNodes : node.data.id # FocalId /\ node.data.file = Null

(* ------------------ server: claims on parameters and search ------------ *)

(* The query parameters a route requires. *)
RequiredParams ==
  [r \in { "/call-graph/search", "/call-graph/function-detail", "/call-graph/source",
           "/call-graph/file-functions", "/call-graph/neighborhood",
           "/call-graph/call-chain", "/call-graph/callers", "/call-graph/path" } |->
     CASE r = "/call-graph/search" -> {"q"}
       [] r = "/call-graph/file-functions" -> {"file"}
       [] r = "/call-graph/path" -> {"startFunctionId", "endFunctionId"}
       [] OTHER -> {"functionId"}]

(* Missing, not a string, or nothing but whitespace. *)
Blank(value) == value = Null \/ \A i \in 1..Len(value) : IsWhitespace(value[i])

IntegersSpelled(text) ==
  { n \in -99..99 :
      text = IF n < 0 THEN <<"-">> \o toDecimal(0 - n) ELSE toDecimal(n) }

(* C14: GET /call-graph/search returns only rows of kind "function", and   *)
(* exactly min(limit, number of matching function rows) of them, where     *)
(* limit is the requested integer clamped to 1..50, and 25 when no limit   *)
(* is supplied or it is not an integer.                                    *)
C14_SearchReturnsLimitedFunctions ==
  ( /\ Requested("/call-graph/search")
    /\ ~Blank(request.query.q)
    /\ HasStoredText(CALL_GRAPH_QUERY_NAMES.symbolSearch) )
    => LET spelled == IF request.query.limit = Null THEN {}
                      ELSE IntegersSpelled(request.query.limit)
           limit == IF spelled = {} THEN 25
                    ELSE Min(Max(CHOOSE n \in spelled : TRUE, 1), 50)
           matching == SelectSeq(symbols, LAMBDA row : row.kind = "function")
       IN /\ response.status = 200
          /\ \A i \in 1..Len(response.body.functions) :
               response.body.functions[i].kind = "function"
          /\ Len(response.body.functions) = Min(limit, Len(matching))
          /\ response.body.count = Len(response.body.functions)

(* ------------------------ client: ranking as a state machine ----------- *)

MaxPool == 3

(* Candidate rows around FocalFunction (file ab/m.go, package ab): two with *)
(* the focal file and package whose names differ in case only, one in       *)
(* another package, an external symbol without file, a deeper row that      *)
(* shares the package only, and a third row of the best score whose name    *)
(* repeats the first.                                                       *)
RankCatalogue ==
  << TraversalRow(Id_c1, <<"b">>, File_ab_m, 5, Seg_ab, Str_caller, 1),
     TraversalRow(<<"x","1">>, <<"B">>, File_ab_m, 6, Seg_ab, Str_caller, 1),
     TraversalRow(Id_shared, <<"s","1">>, File_cd_k, 4, Seg_cd, Str_caller, 1),
     TraversalRow(<<"e","x","t",":",":","q">>, <<"Q">>, Null, 0, Null, Str_caller, 1),
     TraversalRow(<<"y","1">>, <<"a">>, File_cd_k, 7, Seg_ab, Str_caller, 2),
     TraversalRow(<<"z","1">>, <<"b">>, File_ab_m, 8, Seg_ab, Str_caller, 1) >>

InitTake ==
  /\ op = "none"
  /\ sources = <<>>
  /\ ResolverIdle
  /\ BrowseIdle
  /\ ServerIdle
  /\ RegistryIdle
  /\ selectedFunction = FocalFunction
  /\ graphView = "deep"
  /\ graphData = EmptyGraphData
  /\ activeGraphData = EmptyGraphData
  /\ graphElements = <<>>
  /\ previousElements = <<>>
  /\ LoadIdle
  /\ takeNodes \in DistinctPicks(RankCatalogue, MaxPool)
  /\ takeBudget \in 0..(MaxPool + 1)
  /\ taken = <<>>

(* One call takeMeaningfulNodes(nodes, budget, selectedFunction). *)
TakeMeaningfulNodes ==
  /\ op = "none"
  /\ op' = "takeMeaningfulNodes"
  /\ taken' = takeMeaningfulNodes(takeNodes, takeBudget, selectedFunction)
  /\ UNCHANGED <<sources, resolverVars, browseVars, serverVars, registryVars, graphVars,
                 loadVars, takeNodes, takeBudget>>

NextTake == TakeMeaningfulNodes

SpecTake == InitTake /\ [][NextTake]_vars

(* ------------------------ ranking: the claims -------------------------- *)

Took == op = "takeMeaningfulNodes"

(* The claim's score, spelled out from the row and the focal function. *)
ScoreOf(node) ==
  node.depth * 100
    - (IF node.package # Null /\ node.package = selectedFunction.package THEN 20 ELSE 0)
    - (IF node.file # Null /\ node.file = selectedFunction.file THEN 10 ELSE 0)
    - (IF node.file # Null THEN 5 ELSE 0)
    + (IF node.id # Null /\ Len(node.id) >= 5 /\ SubSeq(node.id, 1, 5) = <<"e","x","t",":",":">>
       THEN 15 ELSE 0)

(* left ranks strictly before right: lower score, or the same score and a  *)
(* name that sorts earlier under localeCompare.                            *)
RanksBefore(left, right) ==
  \/ ScoreOf(left) < ScoreOf(right)
  \/ /\ ScoreOf(left) = ScoreOf(right)
     /\ localeCompare(left.name, right.name) < 0

(* C21: takeMeaningfulNodes(pool, k) returns min(k, |pool|) nodes of the    *)
(* pool, best first, and no node it leaves out ranks strictly before a node *)
(* it returns, under "lower score first, ties by ascending name".           *)
C21_TakesBestRanked ==
  Took =>
    /\ Len(taken) = Min(takeBudget, Len(takeNodes))
    /\ \A i \in 1..Len(taken) : \E j \in 1..Len(takeNodes) : takeNodes[j] = taken[i]
    /\ \A i, j \in 1..Len(taken) : i < j => ~RanksBefore(taken[j], taken[i])
    /\ \A j \in 1..Len(takeNodes) :
         (\A i \in 1..Len(taken) : taken[i] # takeNodes[j])
           => \A i \in 1..Len(taken) : ~RanksBefore(takeNodes[j], taken[i])

(* A pool whose best-ranked node is not its first, with a node left out    *)
(* and a tie on the score that the name decides.                           *)
C21_Witness ==
  /\ Took
  /\ Len(taken) >= 1
  /\ Len(taken) < Len(takeNodes)
  /\ taken[1] # takeNodes[1]
  /\ \E j \in 1..Len(takeNodes) :
       /\ ScoreOf(takeNodes[j]) = ScoreOf(taken[1])
       /\ localeCompare(taken[1].name, takeNodes[j].name) < 0

(* ------------------------ client: loading a graph ---------------------- *)

MAX_TRANSITIVE_DEPTH == 2

(* loadGraph awaits three requests: neighborhood, call-chain and callers. *)
FetchCount == 3

MaxLoads == 2
MaxSourceLoads == 1

OtherFunction ==
  [function_id |-> Id_c1, name |-> <<"b">>, file |-> File_ab_m, line |-> 5, package |-> Seg_ab]

ClientFunctions == {FocalFunction, OtherFunction}

(* The nodes the server answers for the three traversals of a function;    *)
(* each function calls the other, and both transitive answers reach past   *)
(* the depth the client keeps.                                             *)
TraversalAnswers(functionMeta) ==
  IF functionMeta = FocalFunction
  THEN [neighborhood |->
          << TraversalRow(Id_c1, <<"b">>, File_ab_m, 5, Seg_ab, Str_callee, 1) >>,
        callChain |->
          << TraversalRow(Id_c1, <<"b">>, File_ab_m, 5, Seg_ab, Str_callee, 1),
             TraversalRow(Id_shared, <<"s","1">>, File_cd_k, 4, Seg_cd, Str_callee, 2),
             TraversalRow(Id_f9, <<"z">>, File_cd_k, 9, Seg_cd, Str_callee, 3) >>,
        callers |->
          << TraversalRow(Id_c1, <<"b">>, File_ab_m, 5, Seg_ab, Str_caller, 1) >>]
  ELSE [neighborhood |->
          << TraversalRow(Id_focal, <<"R","u","n">>, File_ab_m, 3, Seg_ab, Str_callee, 1) >>,
        callChain |->
          << TraversalRow(Id_focal, <<"R","u","n">>, File_ab_m, 3, Seg_ab, Str_callee, 1) >>,
        callers |->
          << TraversalRow(Id_focal, <<"R","u","n">>, File_ab_m, 3, Seg_ab, Str_caller, 1),
             TraversalRow(Id_f9, <<"z">>, File_cd_k, 9, Seg_cd, Str_caller, 3) >>]

(* The error requestJson throws for a response that is not ok. *)
FetchError == [name |-> <<"E","r","r","o","r">>, message |-> <<"5","0","0">>]

(* String(error.message || error) *)
graphErrorOf(error) == IF error.message # <<>> THEN error.message ELSE error.name

withinDepth(nodes) == SelectSeq(nodes, LAMBDA node : node.depth <= MAX_TRANSITIVE_DEPTH)

(* The value loadGraph stores once Promise.all has resolved. *)
loadedGraphData(answers) ==
  [neighborhood |-> answers.neighborhood,
   callChain |-> withinDepth(answers.callChain),
   callers |-> withinDepth(answers.callers)]

(* The first result sets of an answer, the others taken from the state. *)
graphDataOnEachFulfilled(current, answers, arrived) ==
  [neighborhood |-> IF arrived >= 1 THEN answers.neighborhood ELSE current.neighborhood,
   callChain |-> IF arrived >= 2 THEN withinDepth(answers.callChain) ELSE current.callChain,
   callers |-> IF arrived >= FetchCount THEN withinDepth(answers.callers) ELSE current.callers]

(* graphData after one more request of a load was answered: Promise.all    *)
(* resolves, and the try block goes on, when all of them were.             *)
graphDataOnFulfilled(current, answers, arrived) ==
  IF arrived = FetchCount THEN loadedGraphData(answers) ELSE current

Fulfilled == [kind |-> "fulfilled", error |-> FetchError]
Rejected == [kind |-> "rejected", error |-> FetchError]

(* A load whose answer is dropped when a load started after it has         *)
(* finished before it.                                                     *)
loadGraphContinuesUnlessStale(state, load, event) ==
  IF load.overtaken
  THEN state
  ELSE IF event.kind = "rejected"
  THEN [graphData |-> EmptyGraphData, graphError |-> graphErrorOf(event.error),
        isGraphLoading |-> FALSE]
  ELSE IF load.arrived + 1 = FetchCount
  THEN [graphData |->
          graphDataOnFulfilled(state.graphData, TraversalAnswers(load.functionMeta),
                               load.arrived + 1),
        graphError |-> state.graphError, isGraphLoading |-> FALSE]
  ELSE [state EXCEPT !.graphData =
          graphDataOnFulfilled(state.graphData, TraversalAnswers(load.functionMeta),
                               load.arrived + 1)]

(* What a loadGraph call does to the graph state when one of its requests  *)
(* is answered or fails: the catch block on the first failure, the rest of *)
(* the try block on the last answer, and the finally block after either.   *)
loadGraphContinues(state, load, event) ==
  IF event.kind = "rejected"
  THEN [graphData |-> EmptyGraphData, graphError |-> graphErrorOf(event.error),
        isGraphLoading |-> FALSE]
  ELSE IF load.arrived + 1 = FetchCount
  THEN [graphData |->
          graphDataOnFulfilled(state.graphData, TraversalAnswers(load.functionMeta),
                               load.arrived + 1),
        graphError |-> state.graphError, isGraphLoading |-> FALSE]
  ELSE [state EXCEPT !.graphData =
          graphDataOnFulfilled(state.graphData, TraversalAnswers(load.functionMeta),
                               load.arrived + 1)]

settles(load, event) == event.kind = "rejected" \/ load.arrived + 1 = FetchCount

(* A loadGraph call at its await: the function, the number of its requests *)
(* answered so far, and whether a call started after it has finished.      *)
NewLoad(functionMeta) == [functionMeta |-> functionMeta, arrived |-> 0, overtaken |-> FALSE]

(* The calls still waiting after call i has finished. *)
afterSettled(waiting, i) ==
  [k \in 1..(i - 1) |-> [waiting[k] EXCEPT !.overtaken = TRUE]]
    \o SubSeq(waiting, i + 1, Len(waiting))

FileLoad == [kind |-> "file", functionMeta |-> NoFunction]
FunctionSourceLoad(functionMeta) == [kind |-> "function", functionMeta |-> functionMeta]

(* The ids of the nodes the neighbors view draws. *)
drawnIds ==
  {selectedFunction.function_id}
    \cup { graphData.neighborhood[k].id : k \in 1..Len(graphData.neighborhood) }

(* After mount: the effect has started loadFile for the default file. *)
InitClient ==
  /\ op = "none"
  /\ sources = <<>>
  /\ ResolverIdle
  /\ BrowseIdle
  /\ ServerIdle
  /\ RegistryIdle
  /\ GraphIdle
  /\ mode = "browse"
  /\ graphError = <<>>
  /\ isGraphLoading = FALSE
  /\ loads = <<>>
  /\ sourceLoads = {FileLoad}
  /\ lastSettled = NoLoad
  /\ TakeIdle

idleInClient ==
  <<sources, resolverVars, browseVars, serverVars, registryVars,
    activeGraphData, graphElements, previousElements, takeVars>>

(* handleFunctionClick, up to the await inside loadGraph. *)
HandleFunctionClick ==
  \E functionMeta \in ClientFunctions :
    /\ Len(loads) < MaxLoads
    /\ op' = "handleFunctionClick"
    /\ selectedFunction' = functionMeta
    /\ graphView' = "neighbors"
    /\ mode' = "graph"
    /\ isGraphLoading' = TRUE
    /\ graphError' = <<>>
    /\ loads' = Append(loads, NewLoad(functionMeta))
    /\ lastSettled' = NoLoad
    /\ UNCHANGED <<graphData, sourceLoads, idleInClient>>

(* handleGraphNodeSelect for a tap on a drawn node, up to the awaits       *)
(* inside loadFunctionSource and loadGraph.                                *)
HandleGraphNodeSelect ==
  \E functionMeta \in ClientFunctions :
    /\ mode = "graph"
    /\ selectedFunction # NoFunction
    /\ graphError = <<>>
    /\ ~isGraphLoading
    /\ functionMeta.function_id \in drawnIds
    /\ Len(loads) < MaxLoads
    /\ Cardinality(sourceLoads) < MaxSourceLoads
    /\ FunctionSourceLoad(functionMeta) \notin sourceLoads
    /\ op' = "handleGraphNodeSelect"
    /\ sourceLoads' = sourceLoads \cup {FunctionSourceLoad(functionMeta)}
    /\ isGraphLoading' = TRUE
    /\ graphError' = <<>>
    /\ loads' = Append(loads, NewLoad(functionMeta))
    /\ lastSettled' = NoLoad
    /\ UNCHANGED <<selectedFunction, graphView, graphData, mode, idleInClient>>

(* The file browser's onFileOpen, up to the await inside loadFile. *)
HandleFileOpen ==
  /\ Cardinality(sourceLoads) < MaxSourceLoads
  /\ FileLoad \notin sourceLoads
  /\ op' = "loadFile"
  /\ sourceLoads' = sourceLoads \cup {FileLoad}
  /\ lastSettled' = NoLoad
  /\ UNCHANGED <<graphVars, mode, graphError, isGraphLoading, loads,
                 sources, resolverVars, browseVars, serverVars, registryVars, takeVars>>

HandleBackToBrowse ==
  /\ mode = "graph"
  /\ op' = "handleBackToBrowse"
  /\ mode' = "browse"
  /\ selectedFunction' = NoFunction
  /\ graphView' = "neighbors"
  /\ graphData' = EmptyGraphData
  /\ graphError' = <<>>
  /\ lastSettled' = NoLoad
  /\ UNCHANGED <<isGraphLoading, loads, sourceLoads, idleInClient>>

GraphState ==
  [graphData |-> graphData, graphError |-> graphError, isGraphLoading |-> isGraphLoading]

(* One request of a waiting loadGraph call is answered, or fails; the call *)
(* goes on past its await when that settles Promise.all.                   *)
LoadGraphStep(i, event) ==
  \E next \in { loadGraphContinues(GraphState, loads[i], event) } :
    /\ op' = IF settles(loads[i], event) THEN "loadGraph" ELSE "requestJson"
    /\ graphData' = next.graphData
    /\ graphError' = next.graphError
    /\ isGraphLoading' = next.isGraphLoading
    /\ loads' =
         IF settles(loads[i], event)
         THEN afterSettled(loads, i)
         ELSE [loads EXCEPT ![i].arrived = @ + 1]
    /\ lastSettled' =
         IF settles(loads[i], event)
         THEN [functionMeta |-> loads[i].functionMeta, arrived |-> loads[i].arrived,
               overtaken |-> loads[i].overtaken, outcome |-> event.kind]
         ELSE NoLoad
    /\ UNCHANGED <<selectedFunction, graphView, mode, sourceLoads, idleInClient>>

FetchFulfilled == \E i \in 1..Len(loads) : LoadGraphStep(i, Fulfilled)

FetchRejected == \E i \in 1..Len(loads) : LoadGraphStep(i, Rejected)

(* loadFile past its await, both requests answered. *)
FileLoaded ==
  /\ FileLoad \in sourceLoads
  /\ op' = "loadFile"
  /\ sourceLoads' = sourceLoads \ {FileLoad}
  /\ mode' = "browse"
  /\ selectedFunction' = NoFunction
  /\ graphView' = "neighbors"
  /\ graphData' = EmptyGraphData
  /\ graphError' = <<>>
  /\ lastSettled' = NoLoad
  /\ UNCHANGED <<isGraphLoading, loads, idleInClient>>

(* loadFunctionSource past its awaits, both requests answered. *)
FunctionSourceLoaded ==
  \E functionMeta \in ClientFunctions :
    /\ FunctionSourceLoad(functionMeta) \in sourceLoads
    /\ op' = "loadFunctionSource"
    /\ sourceLoads' = sourceLoads \ {FunctionSourceLoad(functionMeta)}
    /\ selectedFunction' = functionMeta
    /\ lastSettled' = NoLoad
    /\ UNCHANGED <<graphView, graphData, mode, graphError, isGraphLoading, loads,
                   idleInClient>>

(* loadFile or loadFunctionSource in its catch block. *)
SourceLoadFailed ==
  \E load \in sourceLoads :
    /\ op' = "sourceError"
    /\ sourceLoads' = sourceLoads \ {load}
    /\ lastSettled' = NoLoad
    /\ UNCHANGED <<graphVars, mode, graphError, isGraphLoading, loads,
                   sources, resolverVars, browseVars, serverVars, registryVars, takeVars>>

NextClient ==
  \/ HandleFunctionClick
  \/ HandleGraphNodeSelect
  \/ HandleFileOpen
  \/ HandleBackToBrowse
  \/ FetchFulfilled
  \/ FetchRejected
  \/ FileLoaded
  \/ FunctionSourceLoaded
  \/ SourceLoadFailed

SpecClient == InitClient /\ [][NextClient]_vars

(* ------------------------ client: claims on loading -------------------- *)

LoadJustSettled == op = "loadGraph"

CompleteResults == { loadedGraphData(TraversalAnswers(f)) : f \in ClientFunctions }

(* A step that puts result sets into graphData is the step in which the    *)
(* last of the three requests of one load is answered, and it stores that  *)
(* load's three result sets.                                               *)
StoresOnlyCompleteLoad ==
  (graphData' # graphData /\ graphData' # EmptyGraphData)
    => \E i \in 1..Len(loads) :
         /\ loads[i].arrived = FetchCount - 1
         /\ graphData' = loadedGraphData(TraversalAnswers(loads[i].functionMeta))
         /\ lastSettled'.outcome = "fulfilled"
         /\ op' = "loadGraph"

(* C16: loadGraph stores traversal data only once all three requests of    *)
(* the load were answered; when one of them fails it stores three empty    *)
(* lists and a graphError; graphData is therefore always empty or the      *)
(* three result sets of one load, never a part of them.                    *)
C16_LoadAppliesAllOrNothing ==
  /\ [](graphData \in {EmptyGraphData} \cup CompleteResults)
  /\ []((LoadJustSettled /\ lastSettled.outcome = "rejected")
          => (graphData = EmptyGraphData /\ graphError # <<>>))
  /\ []((LoadJustSettled /\ lastSettled.outcome = "fulfilled")
          => graphData = loadedGraphData(TraversalAnswers(lastSettled.functionMeta)))
  /\ [][StoresOnlyCompleteLoad]_vars

(* A load whose third request failed after the other two were answered. *)
C16_Witness ==
  /\ LoadJustSettled
  /\ lastSettled.outcome = "rejected"
  /\ lastSettled.arrived = FetchCount - 1
  /\ graphData = EmptyGraphData
  /\ graphError = graphErrorOf(FetchError)

(* C17: a load is never cancelled: when it finishes after a load that was  *)
(* started later has finished, its result sets, or its failure, still      *)
(* replace the graph state the later load left.                            *)
C17_OvertakenLoadOverwrites ==
  (LoadJustSettled /\ lastSettled.overtaken)
    => /\ lastSettled.outcome = "fulfilled"
            => graphData = loadedGraphData(TraversalAnswers(lastSettled.functionMeta))
       /\ lastSettled.outcome = "rejected"
            => (graphData = EmptyGraphData /\ graphError = graphErrorOf(FetchError))

(* The load of the first function finished after the load of the second,   *)
(* which was started later: the graph shows the first function's results   *)
(* under the second function's selection.                                  *)
C17_Witness ==
  /\ LoadJustSettled
  /\ lastSettled.overtaken
  /\ lastSettled.outcome = "fulfilled"
  /\ lastSettled.functionMeta = FocalFunction
  /\ selectedFunction = OtherFunction
  /\ loads = <<>>
  /\ graphData = loadedGraphData(TraversalAnswers(FocalFunction))

(* C28: whenever no graph load and no source load is waiting and a focal   *)
(* function is selected, graphData holds no result sets of another          *)
(* function: it is empty or the result sets fetched for the focal function. *)
C28_GraphDataIsOfFocalFunction ==
  (loads = <<>> /\ sourceLoads = {} /\ selectedFunction # NoFunction)
    => graphData \in {EmptyGraphData, loadedGraphData(TraversalAnswers(selectedFunction))}

(* C29: isGraphLoading is true whenever a loadGraph call is still waiting  *)
(* for its requests.                                                        *)
C29_LoadingWhileLoadWaits ==
  loads # <<>> => isGraphLoading

====
